---- MODULE Spec2Model ----
(***************************************************************************)
(* Market-maker engine of dex_capital_efficiency: MarketMakerInterface     *)
(* (imarketmaker.py) and its curve subclasses AMM, MAMM, CSMM, MCSMM and   *)
(* PMM.  Python floats are modelled by exact rationals; x ** 0.5 is exact  *)
(* on rational squares and otherwise rounded down to a multiple of         *)
(* 1/SqrtScale; a negative radicand gives Python's complex result.         *)
(***************************************************************************)
EXTENDS Integers, Sequences, FiniteSets, TLC

\* ------------------------------------------------------------------------
\* Bounds of the model
\* ------------------------------------------------------------------------
MaxBatches == 2
MaxTxPerBatch == 2
MaxArbActions == 2
MaxMag == 30000
MaxExp == 2
SqrtScale == 16

\* ------------------------------------------------------------------------
\* Numbers.  A float is [n, d] with d > 0 in lowest terms.  d = 0 marks a
\* result that is no real number: a raised ZeroDivisionError, a raised
\* TypeError, a complex value, or a value outside the range of the model.
\* ------------------------------------------------------------------------
ZDE == [n |-> 1, d |-> 0]
CPLX == [n |-> 2, d |-> 0]
BIG == [n |-> 3, d |-> 0]
TYPEERR == [n |-> 4, d |-> 0]
\* KeyError: a Pool State has no entry for the key looked up.
KEYERR == [n |-> 6, d |-> 0]

IsNum(a) == a.d > 0
IsRaised(a) == a = ZDE \/ a = TYPEERR

Abs(i) == IF i < 0 THEN -i ELSE i

RECURSIVE Gcd(_, _)
Gcd(a, b) == IF b = 0 THEN a ELSE Gcd(b, a % b)

\* Definitions bind the values they use more than once as parameters of a
\* local operator, applied once to the expressions that compute them.
Norm(n, d) ==
    LET Lowest(nn, dd) ==
            IF Abs(nn) > MaxMag \/ dd > MaxMag THEN BIG ELSE [n |-> nn, d |-> dd]
        Reduced(g, s) == Lowest((s * n) \div g, (s * d) \div g)
    IN Reduced(Gcd(Abs(n), Abs(d)), IF d < 0 THEN -1 ELSE 1)

Q(n, d) == Norm(n, d)

\* A float far outside the unit range: [n, d, e] is n/d * 2^(100 e), e # 0,
\* |e| <= MaxExp.  A float has a significand of 53 bits and n/d lies between
\* 1/MaxMag and MaxMag in magnitude, so the sum of two numbers of different
\* scale rounds to the one of larger scale.
Exp(a) == IF "e" \in DOMAIN a THEN a.e ELSE 0
Scaled(m, e) ==
    IF m.d = 0 \/ m.n = 0 \/ e = 0 THEN m
    ELSE IF Abs(e) > MaxExp THEN BIG
    ELSE [n |-> m.n, d |-> m.d, e |-> e]
\* 2.0 ** 100
Huge == [n |-> 1, d |-> 1, e |-> 1]
R(n) == [n |-> n, d |-> 1]
Zero == R(0)
One == R(1)
Two == R(2)
Four == R(4)

\* The special result of an operation on a and b, given that one of them is
\* special: a raised exception wins, then out-of-range, then complex.
Poison(a, b) ==
    IF IsRaised(a) THEN a
    ELSE IF IsRaised(b) THEN b
    ELSE IF a = BIG \/ b = BIG THEN BIG
    ELSE CPLX

Add(a, b) ==
    IF IsNum(a) /\ IsNum(b)
    THEN IF Exp(a) = Exp(b)
         THEN Scaled(Norm(a.n * b.d + b.n * a.d, a.d * b.d), Exp(a))
         ELSE IF a.n = 0 THEN b
         ELSE IF b.n = 0 THEN a
         ELSE IF Exp(a) > Exp(b) THEN a ELSE b
    ELSE Poison(a, b)

Neg(a) == IF IsNum(a) THEN [a EXCEPT !.n = -a.n] ELSE a

Sub(a, b) == Add(a, Neg(b))

Mul(a, b) ==
    IF IsNum(a) /\ IsNum(b)
    THEN Scaled(Norm(a.n * b.n, a.d * b.d), Exp(a) + Exp(b))
    ELSE Poison(a, b)

\* Python's a / b: ZeroDivisionError when b is zero (float or complex a).
Div(a, b) ==
    IF IsRaised(a) \/ IsRaised(b) THEN Poison(a, b)
    ELSE IF IsNum(b) /\ b.n = 0 THEN (IF a = BIG THEN BIG ELSE ZDE)
    ELSE IF IsNum(a) /\ IsNum(b)
    THEN Scaled(Norm(a.n * b.d, a.d * b.n), Exp(a) - Exp(b))
    ELSE Poison(a, b)

\* Comparisons of two real numbers.
\* The order of numbers of different scale is that of sign and scale.
Rank(a) ==
    IF a.n = 0 THEN 0
    ELSE IF a.n > 0 THEN Exp(a) + MaxExp + 1
    ELSE 0 - (Exp(a) + MaxExp + 1)
Lt(a, b) ==
    IF Exp(a) = Exp(b) THEN a.n * b.d < b.n * a.d ELSE Rank(a) < Rank(b)
Gt(a, b) == Lt(b, a)
Le(a, b) == ~Lt(b, a)
Ge(a, b) == ~Lt(a, b)

RECURSIVE ISqrtBetween(_, _, _)
ISqrtBetween(x, lo, hi) ==
    IF lo >= hi THEN lo
    ELSE LET Halve(mid) ==
                 IF mid * mid <= x THEN ISqrtBetween(x, mid, hi)
                 ELSE ISqrtBetween(x, lo, mid - 1)
         IN Halve((lo + hi + 1) \div 2)

\* Largest r with r * r <= x, for 0 <= x.
ISqrt(x) == ISqrtBetween(x, 0, IF x < 46340 THEN x ELSE 46340)

\* Python's a ** 0.5.
Sqrt(a) ==
    IF ~IsNum(a) THEN a
    ELSE IF Exp(a) # 0 THEN BIG
    ELSE IF a.n < 0 THEN CPLX
    ELSE LET Root(rn, rd) ==
                 IF rn * rn = a.n /\ rd * rd = a.d THEN [n |-> rn, d |-> rd]
                 ELSE Norm(ISqrt((a.n * SqrtScale * SqrtScale) \div a.d),
                           SqrtScale)
         IN Root(ISqrt(a.n), ISqrt(a.d))

\* Real operands of a comparison; otherwise the comparison yields CmpErr:
\* Python raises TypeError when it orders a complex number.
CmpOK(a, b) == IsNum(a) /\ IsNum(b)
CmpErr(a, b) ==
    IF IsRaised(a) THEN a
    ELSE IF IsRaised(b) THEN b
    ELSE IF a = BIG \/ b = BIG THEN BIG
    ELSE TYPEERR

\* ------------------------------------------------------------------------
\* Topology handed to the constructor (Initializer.configure_tokens builds
\* every pair in both directions with mirrored balances and one k).
\* ------------------------------------------------------------------------
single_pools == <<"A", "B", "C">>
TokenSet == {single_pools[i] : i \in 1..Len(single_pools)}
DefaultK == Q(1, 2)
single_infos == <<<<R(4), DefaultK>>, <<R(4), DefaultK>>, <<R(4), DefaultK>>>>

pairwise_pools ==
    << <<"A", "B">>, <<"B", "A">>, <<"A", "C">>, <<"C", "A">>,
       <<"B", "C">>, <<"C", "B">> >>
pairwise_infos ==
    << <<R(4), R(4), DefaultK>>, <<R(4), R(4), DefaultK>>,
       <<R(4), R(9), DefaultK>>, <<R(9), R(4), DefaultK>>,
       <<R(4), R(4), DefaultK>>, <<R(4), R(4), DefaultK>> >>

Engines == {"AMM", "MAMM", "CSMM", "MCSMM", "PMM"}
IsMulti(engine) == engine \in {"MAMM", "MCSMM"}

\* MultiTokenPoolStatus.__init__ / PairwiseTokenPoolStatus.__init__
MultiTokenPoolStatus ==
    [t \in TokenSet |->
        single_infos[CHOOSE i \in 1..Len(single_pools) : single_pools[i] = t]]
\* zip(token_pairs, token_infos) stops at the end of the shorter list; a
\* pair listed twice keeps the entry written last.
ZipLen(token_pairs, token_infos) ==
    IF Len(token_pairs) < Len(token_infos) THEN Len(token_pairs)
    ELSE Len(token_infos)
PairwiseTokenPoolStatusOf(token_pairs, token_infos) ==
    LET Zipped(n) ==
            [p \in {token_pairs[i] : i \in 1..n} |->
                token_infos[CHOOSE i \in 1..n :
                                /\ token_pairs[i] = p
                                /\ \A i2 \in 1..n : token_pairs[i2] = p => i2 <= i]]
    IN Zipped(ZipLen(token_pairs, token_infos))
PairwiseTokenPoolStatus ==
    PairwiseTokenPoolStatusOf(pairwise_pools, pairwise_infos)

\* External price vectors a batch may carry.
PriceVecs ==
    { [t \in TokenSet |-> R(1)],
      [t \in TokenSet |-> IF t = "A" THEN R(4) ELSE R(1)] }

\* Transaction descriptors (InputTx objects) the traffic may contain.
TxObjs ==
    { [intype |-> "A", outtype |-> "B", inval |-> R(4), is_arb |-> FALSE],
      [intype |-> "A", outtype |-> "B", inval |-> R(6), is_arb |-> FALSE],
      [intype |-> "A", outtype |-> "C", inval |-> R(0), is_arb |-> FALSE],
      [intype |-> "B", outtype |-> "A", inval |-> R(3), is_arb |-> TRUE] }

\* The balance entry of (intype, outtype): input and output balance.
InBal(multi, ti, intype, outtype) ==
    IF multi THEN ti[intype][1] ELSE ti[<<intype, outtype>>][1]
OutBal(multi, ti, intype, outtype) ==
    IF multi THEN ti[outtype][1] ELSE ti[<<intype, outtype>>][2]

MarketRate(pr, intype, outtype) == Div(pr[outtype], pr[intype])

\* OutputTx.__init__
OutputTx(in_type, out_type, in0, out0, in1, out1, market_rate, after_rate) ==
    [in_type |-> in_type, out_type |-> out_type,
     inpool_init_val |-> in0, outpool_init_val |-> out0,
     inpool_after_val |-> in1, outpool_after_val |-> out1,
     market_rate |-> market_rate, after_rate |-> after_rate]

\* MarketMakerInterface.swap with out_amt given: the Pool State after the
\* call and the OutputTx; the snapshot returned is a deep copy of ti.
\* Mutant: the mirror entry (outtype, intype) is left alone.
BaseSwapStateNoMirror(multi, ti, intype, outtype, inval, out_amt, execute) ==
    IF ~execute THEN ti
    ELSE IF multi THEN
        LET t1 == [ti EXCEPT ![intype][1] = Add(@, inval)]
        IN [t1 EXCEPT ![outtype][1] = Sub(@, out_amt)]
    ELSE [ti EXCEPT ![<<intype, outtype>>][1] = Add(@, inval),
                    ![<<intype, outtype>>][2] = Sub(@, out_amt)]

\* Mutant: the execute flag is ignored, the swap is always applied.
BaseSwapStateAlwaysExecutes(multi, ti, intype, outtype, inval, out_amt, execute) ==
    IF multi THEN
        LET t1 == [ti EXCEPT ![intype][1] = Add(@, inval)]
        IN [t1 EXCEPT ![outtype][1] = Sub(@, out_amt)]
    ELSE
        LET t1 == [ti EXCEPT ![<<intype, outtype>>][1] = Add(@, inval),
                             ![<<intype, outtype>>][2] = Sub(@, out_amt)]
        IN [t1 EXCEPT ![<<outtype, intype>>][1] = Sub(@, out_amt),
                      ![<<outtype, intype>>][2] = Add(@, inval)]

\* Mutant: in pairwise topology the input amount is added to every pool whose
\* input token is intype, as if the pools shared one balance per token.
BaseSwapStateSharedBalance(multi, ti, intype, outtype, inval, out_amt, execute) ==
    IF ~execute THEN ti
    ELSE IF multi THEN
        LET t1 == [ti EXCEPT ![intype][1] = Add(@, inval)]
        IN [t1 EXCEPT ![outtype][1] = Sub(@, out_amt)]
    ELSE
        [key \in DOMAIN ti |->
            IF key = <<intype, outtype>>
            THEN <<Add(ti[key][1], inval), Sub(ti[key][2], out_amt), ti[key][3]>>
            ELSE IF key = <<outtype, intype>>
            THEN <<Sub(ti[key][1], out_amt), Add(ti[key][2], inval), ti[key][3]>>
            ELSE IF key[1] = intype
            THEN <<Add(ti[key][1], inval), ti[key][2], ti[key][3]>>
            ELSE ti[key]]

\* Lines 155-156 are applied before line 158 looks the mirror entry up.
BaseSwapState(multi, ti, intype, outtype, inval, out_amt, execute) ==
    IF ~execute THEN ti
    ELSE IF multi THEN
        LET t1 == [ti EXCEPT ![intype][1] = Add(@, inval)]
        IN [t1 EXCEPT ![outtype][1] = Sub(@, out_amt)]
    ELSE
        LET t1 == [ti EXCEPT ![<<intype, outtype>>][1] = Add(@, inval),
                             ![<<intype, outtype>>][2] = Sub(@, out_amt)]
        IN IF <<outtype, intype>> \notin DOMAIN ti THEN t1
           ELSE [t1 EXCEPT ![<<outtype, intype>>][1] = Sub(@, out_amt),
                           ![<<outtype, intype>>][2] = Add(@, inval)]

BaseSwapOutput(multi, ti, pr, intype, outtype, inval, out_amt) ==
    LET in0 == InBal(multi, ti, intype, outtype)
        out0 == OutBal(multi, ti, intype, outtype)
    IN OutputTx(intype, outtype, in0, out0, Add(in0, inval), Sub(out0, out_amt),
                MarketRate(pr, intype, outtype), One)

\* None (no out_amt given, no exception raised).
NONE == [n |-> 0, d |-> 0]

\* The KeyError MarketMakerInterface.swap raises: at line 151 when the Pool
\* State has no entry (intype, outtype), at line 158 when an executed swap
\* finds no mirror entry (outtype, intype).  NONE when it raises none.
BaseSwapErr(multi, ti, intype, outtype, execute) ==
    IF multi THEN NONE
    ELSE IF <<intype, outtype>> \notin DOMAIN ti THEN KEYERR
    ELSE IF execute /\ <<outtype, intype>> \notin DOMAIN ti THEN KEYERR
    ELSE NONE

\* What a swap call leaves behind: the exception it raised (NONE when it
\* returned), Pool State, Equilibrium Snapshot, the OutputTx it returned and
\* the descriptor's inval after the call.  The snapshot it returns is a deep
\* copy of ti.
SwapRes(err, ti, eq, out, inval) ==
    [err |-> err, ti |-> ti, eq |-> eq, out |-> out,
     inval |-> inval]

NoOutput == OutputTx("str", "str", Zero, Zero, Zero, Zero, Zero, Zero)

\* The engine's call of MarketMakerInterface.swap raised e and nothing is
\* returned (e = NONE: it returned and the engine went on to r).
Raising(e, r) ==
    IF e = NONE THEN r ELSE SwapRes(e, r.ti, r.eq, NoOutput, r.inval)

\* ------------------------------------------------------------------------
\* Constant product: AMM (pairwise) and MAMM (multi token)
\* ------------------------------------------------------------------------
\* Mutant: the input amount is counted twice in the denominator.
CPOutAmtLinear(in_balance, out_balance, in_val) ==
    Div(Mul(out_balance, in_val), Add(in_balance, Mul(Two, in_val)))

\* out_amt = const*(1/in_balance - (1/(in_balance + in_val)))
CPOutAmt(in_balance, out_balance, in_val) ==
    LET const == Mul(in_balance, out_balance)
    IN Mul(const, Sub(Div(One, in_balance), Div(One, Add(in_balance, in_val))))

\* in_val / (const*(1/(in_balance + in_val) - (1/(in_balance + 2*in_val))))
CPAfterRate(in_balance, out_balance, in_val) ==
    LET const == Mul(in_balance, out_balance)
    IN Div(in_val,
           Mul(const, Sub(Div(One, Add(in_balance, in_val)),
                          Div(One, Add(in_balance, Mul(Two, in_val))))))

\* Mutant: the Equilibrium Snapshot is the Pool State object itself (no
\* deepcopy at configuration), so a swap moves it along.
CPSwapMovesEquilibrium(multi, ti, eq, pr, intype, outtype, inval, out_amt) ==
    LET in_balance == InBal(multi, ti, intype, outtype)
        out_balance == OutBal(multi, ti, intype, outtype)
        Moved(ti1) ==
            SwapRes(NONE, ti1, ti1,
                    BaseSwapOutput(multi, ti, pr, intype, outtype, inval,
                                   Sub(out_balance,
                                       OutBal(multi, ti1, intype, outtype))),
                    inval)
        Swap(amt) ==
            IF ~IsNum(amt) THEN SwapRes(amt, ti, eq, NoOutput, inval)
            ELSE Moved(BaseSwapState(multi, ti, intype, outtype, inval, amt,
                                     TRUE))
    IN Swap(CPOutAmt(in_balance, out_balance, inval))

\* Mutant: the ZeroDivisionError of the after_rate computation is not caught.
CPSwapRateRaises(multi, ti, eq, pr, intype, outtype, inval, out_amt) ==
    LET in_balance == InBal(multi, ti, intype, outtype)
        out_balance == OutBal(multi, ti, intype, outtype)
        Swap(amt, rate) ==
            IF ~IsNum(amt) THEN SwapRes(amt, ti, eq, NoOutput, inval)
            ELSE IF rate = ZDE
            THEN SwapRes(ZDE,
                    BaseSwapState(multi, ti, intype, outtype, inval, amt, TRUE),
                    eq, NoOutput, inval)
            ELSE SwapRes(NONE,
                    BaseSwapState(multi, ti, intype, outtype, inval, amt, TRUE),
                    eq,
                    [BaseSwapOutput(multi, ti, pr, intype, outtype, inval, amt)
                        EXCEPT !.after_rate = rate],
                    inval)
    IN Swap(CPOutAmt(in_balance, out_balance, inval),
            CPAfterRate(in_balance, out_balance, inval))

\* AMM.swap / MAMM.swap: the out_amt argument is overwritten by the curve's.
CPSwap(multi, ti, eq, pr, intype, outtype, inval, out_amt) ==
    LET in_balance == InBal(multi, ti, intype, outtype)
        out_balance == OutBal(multi, ti, intype, outtype)
        Swap(amt, rate) ==
            IF ~IsNum(amt) THEN SwapRes(amt, ti, eq, NoOutput, inval)
            ELSE Raising(BaseSwapErr(multi, ti, intype, outtype, TRUE),
                 SwapRes(NONE,
                    BaseSwapState(multi, ti, intype, outtype, inval, amt, TRUE),
                    eq,
                    [BaseSwapOutput(multi, ti, pr, intype, outtype, inval, amt)
                        EXCEPT !.after_rate = IF rate = ZDE THEN @ ELSE rate],
                    inval))
    IN Swap(CPOutAmt(in_balance, out_balance, inval),
            CPAfterRate(in_balance, out_balance, inval))

\* AMM.calculate_equilibriums / MAMM.calculate_equilibriums
CPCalculateEquilibriums(multi, ti, pr, intype, outtype) ==
    LET market_rate == MarketRate(pr, intype, outtype)
        Pair(const, new_out) == <<Div(const, new_out), new_out>>
        Root(const) == Pair(const, Sqrt(Div(const, market_rate)))
    IN Root(Mul(OutBal(multi, ti, intype, outtype),
                InBal(multi, ti, intype, outtype)))

\* ------------------------------------------------------------------------
\* Constant sum: CSMM (pairwise) and MCSMM (multi token)
\* ------------------------------------------------------------------------
\* Mutant: an order larger than the output balance is filled all the same.
CSSwapNoVoid(multi, ti, eq, pr, intype, outtype, inval, out_amt) ==
    LET Swap(p, amt) ==
            SwapRes(NONE,
                    BaseSwapState(multi, ti, intype, outtype, inval, amt, TRUE),
                    eq,
                    [BaseSwapOutput(multi, ti, pr, intype, outtype, inval, amt)
                        EXCEPT !.after_rate = p],
                    inval)
        Price(p) == Swap(p, IF out_amt # NONE THEN out_amt ELSE Div(inval, p))
    IN Price(MarketRate(pr, intype, outtype))

CSSwap(multi, ti, eq, pr, intype, outtype, inval, out_amt) ==
    LET Swap(p, val, amt) ==
            Raising(BaseSwapErr(multi, ti, intype, outtype, TRUE),
                SwapRes(NONE,
                    BaseSwapState(multi, ti, intype, outtype, val, amt, TRUE),
                    eq,
                    [BaseSwapOutput(multi, ti, pr, intype, outtype, val, amt)
                        EXCEPT !.after_rate = p],
                    val))
        Clamp(p, want, void) ==
            Swap(p, IF void THEN Zero ELSE inval,
                 IF out_amt # NONE THEN out_amt ELSE IF void THEN Zero ELSE want)
        Order(p, want) ==
            Clamp(p, want,
                  out_amt = NONE /\ Gt(want, OutBal(multi, ti, intype, outtype)))
        Price(p) == Order(p, Div(inval, p))
    IN Price(MarketRate(pr, intype, outtype))

\* ------------------------------------------------------------------------
\* Proactive market maker, pairwise (PMM)
\* ------------------------------------------------------------------------
\* PMM.__solveLong
solveLong(x, l_e, s_e, p, k) ==
    Sub(l_e, Mul(Mul(p, Sub(x, s_e)),
                 Add(Sub(One, k), Div(Mul(k, s_e), x))))

\* PMM.__solveShort
solveShort(y, L, S, p, k) ==
    LET Root(pS, rad) ==
            Div(Sub(Add(Sub(Sub(y, L), pS), Mul(Two, Mul(k, pS))), Sqrt(rad)),
                Mul(Mul(Two, Add(R(-1), k)), p))
        Radicand(pS, ypS, LpS) ==
            Root(pS,
                 Add(Sub(Add(Add(Sub(Add(Sub(Mul(y, y), Mul(Two, Mul(y, L))),
                                         Mul(L, L)),
                                     Mul(Two, ypS)),
                                 Mul(Four, Mul(k, ypS))),
                             Mul(Two, LpS)),
                         Mul(Four, Mul(k, LpS))),
                     Mul(pS, pS)))
        Products(pS) == Radicand(pS, Mul(y, pS), Mul(L, pS))
    IN Products(Mul(p, S))

\* Mutant: the equilibrium is the constant-product one, whatever the stored
\* Equilibrium Snapshot is.
PMMCalculateEquilibriumsByProduct(ti, eq, pr, intype, outtype) ==
    CPCalculateEquilibriums(FALSE, ti, pr, intype, outtype)

\* PMM.calculate_equilibriums: <<in_e, out_e>>, or twice the exception raised.
PMMCalculateEquilibriums(ti, eq, pr, intype, outtype) ==
    LET pool == <<intype, outtype>>
        k == ti[pool][3]
        Result(firstIsLong, l_e, s_e) ==
            IF IsRaised(s_e) \/ s_e = BIG THEN <<s_e, s_e>>
            ELSE IF firstIsLong THEN <<l_e, s_e>> ELSE <<s_e, l_e>>
        Solve(firstIsLong, l_b, s_b, l_e, p) ==
            Result(firstIsLong, l_e,
                   Add(s_b,
                       Mul(Div(s_b, Mul(Two, k)),
                           Sub(Sqrt(Add(One,
                                        Div(Mul(Mul(Four, k), Sub(l_b, l_e)),
                                            Mul(s_b, p)))),
                               One))))
        Sides(firstIsLong) ==
            Solve(firstIsLong,
                  IF firstIsLong THEN ti[pool][1] ELSE ti[pool][2],
                  IF firstIsLong THEN ti[pool][2] ELSE ti[pool][1],
                  IF firstIsLong THEN eq[pool][1] ELSE eq[pool][2],
                  IF firstIsLong THEN Div(pr[outtype], pr[intype])
                  ELSE Div(pr[intype], pr[outtype]))
        Compare(r0, r1) ==
            IF ~CmpOK(r0, r1) THEN <<CmpErr(r0, r1), CmpErr(r0, r1)>>
            ELSE Sides(Ge(r0, r1))
    IN Compare(Div(ti[pool][1], eq[pool][1]), Div(ti[pool][2], eq[pool][2]))

\* PMM.swap, lines 79-93: the new output balance for input d.
PMMNewPt(i_0, o_0, in_e, out_e, d, p, k) ==
    LET Curve(c0, c1, static_amt) ==
            IF ~CmpOK(c0, c1) THEN CmpErr(c0, c1)
            ELSE IF Gt(c0, c1) THEN
                 IF ~CmpOK(static_amt, d) THEN CmpErr(static_amt, d)
                 ELSE IF Lt(static_amt, d)
                      THEN solveShort(Add(Sub(d, static_amt), in_e), in_e, out_e,
                                      p, k)
                      ELSE solveLong(Add(i_0, d), out_e, in_e, Div(One, p), k)
            ELSE solveShort(Add(i_0, d), in_e, out_e, p, k)
    IN Curve(Div(o_0, out_e), Div(i_0, in_e), Sub(in_e, i_0))

\* PMM.swap up to the call of MarketMakerInterface.swap: the amount handed to
\* it, or the exception raised before.
PMMOutAmt(ti, eq, pr, intype, outtype, inval, out_amt) ==
    LET pool == <<intype, outtype>>
        i_0 == ti[pool][1]
        o_0 == ti[pool][2]
        k == ti[pool][3]
        p == MarketRate(pr, intype, outtype)
        Removed(new_pt) ==
            IF IsRaised(new_pt) \/ new_pt = BIG THEN new_pt
            ELSE Sub(o_0, new_pt)
        Amount(e) ==
            IF IsRaised(e[1]) \/ e[1] = BIG THEN e[1]
            ELSE IF out_amt # NONE THEN out_amt
            ELSE Removed(PMMNewPt(i_0, o_0, e[1], e[2], inval, p, k))
    IN Amount(PMMCalculateEquilibriums(ti, eq, pr, intype, outtype))

\* PMM.swap(tx, out_amt, execute).  With execute the swap is applied, the
\* Equilibrium Snapshot is written (lines 100-102) and the swap is called
\* again with execute = False on the state so reached (line 103), whose
\* Outcome gives after_rate; whatever that call does to the state stays.
RECURSIVE PMMSwapExec(_, _, _, _, _, _, _, _)
PMMSwapExec(ti, eq, pr, intype, outtype, inval, out_amt, execute) ==
    LET pool == <<intype, outtype>>
        k == ti[pool][3]
        WithRate(output_tx, rate) ==
            [output_tx EXCEPT !.after_rate = IF rate = ZDE THEN @ ELSE rate]
        Rated(output_tx, probe) ==
            IF probe.err # NONE
            THEN SwapRes(probe.err, probe.ti, probe.eq, NoOutput, inval)
            ELSE SwapRes(NONE, probe.ti, probe.eq,
                         WithRate(output_tx,
                                  Div(inval, Sub(probe.out.outpool_init_val,
                                                 probe.out.outpool_after_val))),
                         inval)
        \* o, _ = self.swap(tx, None, False)
        Executed(output_tx, ti1, eq1) ==
            Rated(output_tx,
                  PMMSwapExec(ti1, eq1, pr, intype, outtype, inval, NONE, FALSE))
        Base(e, amt) ==
            IF IsRaised(amt) \/ amt = BIG
            THEN SwapRes(amt, ti, eq, NoOutput, inval)
            ELSE IF BaseSwapErr(FALSE, ti, intype, outtype, execute) # NONE
            THEN SwapRes(BaseSwapErr(FALSE, ti, intype, outtype, execute),
                         BaseSwapState(FALSE, ti, intype, outtype, inval, amt,
                                       execute),
                         eq, NoOutput, inval)
            ELSE IF ~execute
            THEN SwapRes(NONE,
                         BaseSwapState(FALSE, ti, intype, outtype, inval, amt,
                                       FALSE),
                         eq,
                         BaseSwapOutput(FALSE, ti, pr, intype, outtype, inval, amt),
                         inval)
            ELSE Executed(BaseSwapOutput(FALSE, ti, pr, intype, outtype, inval,
                                         amt),
                          BaseSwapState(FALSE, ti, intype, outtype, inval, amt,
                                        TRUE),
                          [eq EXCEPT ![pool] = <<e[1], e[2], k>>,
                                     ![<<outtype, intype>>] = <<e[2], e[1], k>>])
    IN Base(PMMCalculateEquilibriums(ti, eq, pr, intype, outtype),
            PMMOutAmt(ti, eq, pr, intype, outtype, inval, out_amt))

\* PMM.swap(tx, out_amt)
PMMSwap(ti, eq, pr, intype, outtype, inval, out_amt) ==
    PMMSwapExec(ti, eq, pr, intype, outtype, inval, out_amt, TRUE)

\* self.swap(tx, out_amt) of the configured engine class.  Every pairwise
\* class looks the entry (intype, outtype) up before it writes anything
\* (amm.py line 34, csmm.py line 44 or imarketmaker.py line 151, pmm.py line
\* 74): without that entry the call raises KeyError and nothing has changed.
EngineSwap(engine, ti, eq, pr, intype, outtype, inval, out_amt) ==
    IF BaseSwapErr(IsMulti(engine), ti, intype, outtype, FALSE) # NONE
    THEN SwapRes(KEYERR, ti, eq, NoOutput, inval)
    ELSE
    CASE engine \in {"AMM", "MAMM"} ->
            CPSwap(IsMulti(engine), ti, eq, pr, intype, outtype, inval, out_amt)
      [] engine \in {"CSMM", "MCSMM"} ->
            CSSwap(IsMulti(engine), ti, eq, pr, intype, outtype, inval, out_amt)
      [] engine = "PMM" ->
            PMMSwap(ti, eq, pr, intype, outtype, inval, out_amt)

\* self.calculate_equilibriums(intype, outtype) of the configured engine class.
CalculateEquilibriums(engine, ti, eq, pr, intype, outtype) ==
    IF engine = "PMM" THEN PMMCalculateEquilibriums(ti, eq, pr, intype, outtype)
    ELSE CPCalculateEquilibriums(IsMulti(engine), ti, pr, intype, outtype)

\* ------------------------------------------------------------------------
\* Arbitrage search (MarketMakerInterface.getRate, .arbitrage)
\* ------------------------------------------------------------------------
\* lim = 1e-8, the default of arbitrage()
LimDen == 100000000
\* a > 1/LimDen for a real number a
GtLim(a) == a.n > 0 /\ (Exp(a) > 0 \/ (Exp(a) = 0 /\ a.d \div a.n < LimDen))

\* MarketMakerInterface.getRate: err is the exception calculate_equilibriums
\* raised (NONE when getRate returned).
getRate(engine, ti, eq, pr, pool) ==
    LET multi == IsMulti(engine)
        market_rate == MarketRate(pr, pool[1], pool[2])
        Ratio(in_amt, out_amt, internal_rate) ==
            [err |-> NONE, in_amt |-> in_amt, out_amt |-> out_amt,
             rate |-> Div(market_rate, internal_rate)]
        \* except: internal_rate = 1; if internal_rate == 0: internal_rate = 1
        Try(in_amt, out_amt, quot) ==
            Ratio(in_amt, out_amt,
                  IF quot = ZDE THEN One
                  ELSE IF IsNum(quot) /\ quot.n = 0 THEN One
                  ELSE quot)
        Amounts(in_amt, out_amt) == Try(in_amt, out_amt, Div(in_amt, out_amt))
        Equilibrium(e) ==
            IF IsRaised(e[1]) \/ IsRaised(e[2])
            THEN [err |-> IF IsRaised(e[1]) THEN e[1] ELSE e[2],
                  in_amt |-> Zero, out_amt |-> Zero, rate |-> Zero]
            ELSE Amounts(Sub(e[1], InBal(multi, ti, pool[1], pool[2])),
                         Sub(OutBal(multi, ti, pool[1], pool[2]), e[2]))
    IN Equilibrium(CalculateEquilibriums(engine, ti, eq, pr, pool[1], pool[2]))

\* The pools the scan visits, in order: lines 205-209 (multi token: every
\* tok1 with every later tok2, the pool and then its reverse) and line 223
\* (pairwise: the keys of the Pool State in insertion order).
RECURSIVE MultiOrderFrom(_, _)
MultiOrderFrom(c, i) ==
    IF c > Len(single_pools) THEN <<>>
    ELSE IF i > Len(single_pools) THEN MultiOrderFrom(c + 1, c + 2)
    ELSE << <<single_pools[c], single_pools[i]>>,
            <<single_pools[i], single_pools[c]>> >> \o MultiOrderFrom(c, i + 1)

ScanOrder(engine) ==
    IF IsMulti(engine) THEN MultiOrderFrom(1, 2) ELSE pairwise_pools

\* info = [("str", "str"), {"rate": -1}]
InitInfo ==
    [pool |-> <<"str", "str">>, in_amt |-> Zero, out_amt |-> Zero, rate |-> R(-1)]

\* One candidate of the scan (lines 210-215, 216-221, 224-229): info after
\* it, with the exception raised on the way in err.
\* Mutant: candidates whose output token is a crash token are scanned too.
ScanStepNoCrashFilter(engine, crash_type, ti, eq, pr, pool, info) ==
    LET Candidate(rate_dict) ==
            IF rate_dict.err # NONE THEN [err |-> rate_dict.err, info |-> info]
            ELSE IF ~CmpOK(rate_dict.rate, info.rate)
                 THEN [err |-> CmpErr(rate_dict.rate, info.rate), info |-> info]
            ELSE IF ~Gt(rate_dict.rate, info.rate) THEN [err |-> NONE, info |-> info]
            ELSE IF ~IsNum(rate_dict.in_amt)
                 THEN [err |-> CmpErr(rate_dict.in_amt, Zero), info |-> info]
            ELSE IF GtLim(rate_dict.in_amt)
                 THEN [err |-> NONE,
                       info |-> [pool |-> pool, in_amt |-> rate_dict.in_amt,
                                 out_amt |-> rate_dict.out_amt,
                                 rate |-> rate_dict.rate]]
            ELSE [err |-> NONE, info |-> info]
    IN Candidate(getRate(engine, ti, eq, pr, pool))

\* Mutant: a candidate with a rate equal to the best so far replaces it.
ScanStepLastWins(engine, crash_type, ti, eq, pr, pool, info) ==
    LET Candidate(rate_dict) ==
            IF rate_dict.err # NONE THEN [err |-> rate_dict.err, info |-> info]
            ELSE IF ~CmpOK(rate_dict.rate, info.rate)
                 THEN [err |-> CmpErr(rate_dict.rate, info.rate), info |-> info]
            ELSE IF Gt(info.rate, rate_dict.rate) THEN [err |-> NONE, info |-> info]
            ELSE IF ~IsNum(rate_dict.in_amt)
                 THEN [err |-> CmpErr(rate_dict.in_amt, Zero), info |-> info]
            ELSE IF GtLim(rate_dict.in_amt)
                 THEN [err |-> NONE,
                       info |-> [pool |-> pool, in_amt |-> rate_dict.in_amt,
                                 out_amt |-> rate_dict.out_amt,
                                 rate |-> rate_dict.rate]]
            ELSE [err |-> NONE, info |-> info]
    IN IF pool[2] \in crash_type THEN [err |-> NONE, info |-> info]
       ELSE Candidate(getRate(engine, ti, eq, pr, pool))

ScanStep(engine, crash_type, ti, eq, pr, pool, info) ==
    LET Candidate(rate_dict) ==
            IF rate_dict.err # NONE THEN [err |-> rate_dict.err, info |-> info]
            ELSE IF ~CmpOK(rate_dict.rate, info.rate)
                 THEN [err |-> CmpErr(rate_dict.rate, info.rate), info |-> info]
            ELSE IF ~Gt(rate_dict.rate, info.rate) THEN [err |-> NONE, info |-> info]
            ELSE IF ~IsNum(rate_dict.in_amt)
                 THEN [err |-> CmpErr(rate_dict.in_amt, Zero), info |-> info]
            ELSE IF GtLim(rate_dict.in_amt)
                 THEN [err |-> NONE,
                       info |-> [pool |-> pool, in_amt |-> rate_dict.in_amt,
                                 out_amt |-> rate_dict.out_amt,
                                 rate |-> rate_dict.rate]]
            ELSE [err |-> NONE, info |-> info]
    IN IF pool[2] \in crash_type THEN [err |-> NONE, info |-> info]
       ELSE Candidate(getRate(engine, ti, eq, pr, pool))

RECURSIVE Scan(_, _, _, _, _, _, _)
Scan(engine, crash_type, ti, eq, pr, idx, info) ==
    LET Continue(r) ==
            IF r.err # NONE THEN r
            ELSE Scan(engine, crash_type, ti, eq, pr, idx + 1, r.info)
    IN IF idx > Len(ScanOrder(engine)) THEN [err |-> NONE, info |-> info]
       ELSE Continue(ScanStep(engine, crash_type, ti, eq, pr,
                              ScanOrder(engine)[idx], info))

\* What an arbitrage() call leaves behind.  trace records, for every trade the
\* loop executed, the candidate it executed and the state it executed it on.
ArbRes(err, ti, eq, outs, snaps, info, trace) ==
    [err |-> err, ti |-> ti, eq |-> eq, outs |-> outs, snaps |-> snaps,
     info |-> info, trace |-> trace]

\* Mutant: the loop runs once more than arb_actions, range(arb_actions + 1).
RECURSIVE ArbLoopOneMore(_, _, _, _, _, _)
ArbLoopOneMore(engine, crash_type, arb_actions, pr, i, a) ==
    LET Execute(info, res) ==
            IF Gt(info.rate, One) /\ Gt(info.in_amt, Zero) THEN
                IF res.err # NONE
                THEN [a EXCEPT !.err = res.err, !.ti = res.ti, !.eq = res.eq,
                               !.info = info]
                ELSE ArbLoopOneMore(engine, crash_type, arb_actions, pr, i + 1,
                        ArbRes(NONE, res.ti, res.eq, Append(a.outs, res.out),
                               Append(a.snaps, res.ti), info,
                               Append(a.trace,
                                      [iter |-> i, info |-> info,
                                       ti |-> a.ti, eq |-> a.eq])))
            ELSE [a EXCEPT !.info = info]
        Chosen(info) ==
            Execute(info,
                    EngineSwap(engine, a.ti, a.eq, pr, info.pool[1], info.pool[2],
                               info.in_amt, info.out_amt))
        Scanned(sc) ==
            IF sc.err # NONE THEN [a EXCEPT !.err = sc.err] ELSE Chosen(sc.info)
    IN IF i > arb_actions THEN a
       ELSE Scanned(Scan(engine, crash_type, a.ti, a.eq, pr, 1, a.info))

\* The loop of MarketMakerInterface.arbitrage from iteration i on (lines
\* 203-237); a holds the state the earlier iterations left.
RECURSIVE ArbLoop(_, _, _, _, _, _)
ArbLoop(engine, crash_type, arb_actions, pr, i, a) ==
    LET Execute(info, res) ==
            IF Gt(info.rate, One) /\ Gt(info.in_amt, Zero) THEN
                IF res.err # NONE
                THEN [a EXCEPT !.err = res.err, !.ti = res.ti, !.eq = res.eq,
                               !.info = info]
                ELSE ArbLoop(engine, crash_type, arb_actions, pr, i + 1,
                        ArbRes(NONE, res.ti, res.eq, Append(a.outs, res.out),
                               Append(a.snaps, res.ti), info,
                               Append(a.trace,
                                      [iter |-> i, info |-> info,
                                       ti |-> a.ti, eq |-> a.eq])))
            ELSE [a EXCEPT !.info = info]
        Chosen(info) ==
            Execute(info,
                    EngineSwap(engine, a.ti, a.eq, pr, info.pool[1], info.pool[2],
                               info.in_amt, info.out_amt))
        Scanned(sc) ==
            IF sc.err # NONE THEN [a EXCEPT !.err = sc.err] ELSE Chosen(sc.info)
    IN IF i >= arb_actions THEN a
       ELSE Scanned(Scan(engine, crash_type, a.ti, a.eq, pr, 1, a.info))

\* Mutant: the constant-sum classes do not override arbitrage().
arbitrageNoOverride(engine, crash_type, arb_actions, ti, eq, pr) ==
    ArbLoop(engine, crash_type, arb_actions, pr, 0,
            ArbRes(NONE, ti, eq, <<>>, <<>>, InitInfo, <<>>))

\* MarketMakerInterface.arbitrage; CSMM.arbitrage and MCSMM.arbitrage return
\* two empty lists.
arbitrage(engine, crash_type, arb_actions, ti, eq, pr) ==
    IF engine \in {"CSMM", "MCSMM"}
    THEN ArbRes(NONE, ti, eq, <<>>, <<>>, InitInfo, <<>>)
    ELSE ArbLoop(engine, crash_type, arb_actions, pr, 0,
                 ArbRes(NONE, ti, eq, <<>>, <<>>, InitInfo, <<>>))

\* ------------------------------------------------------------------------
\* State
\* ------------------------------------------------------------------------
VARIABLES
    cfg,                \* configure_simulation / configure_crash_types
    token_info,         \* self.token_info (Pool State)
    equilibriums,       \* self.equilibriums (Equilibrium Snapshot)
    prices,             \* self.prices
    tx_inval,           \* inval of every InputTx object of the traffic
    pc,                 \* position in simulate_traffic
    j,                  \* index of the batch
    n_tx,               \* transactions of the batch processed so far
    txs, stats,         \* simulate_traffic's result lists
    batch_txs, batch_stats,
    initial_copy, token_info_copy, equilibrium_copy,
    err,                \* the exception that left simulate_traffic
    last_call,          \* what the last transaction's swap/arbitrage call did
    solver,             \* a call of the multi-token PMM solver in progress
    ctor,               \* self.pairwise_pools, self.pairwise_infos (__init__)
    external_price      \* the entries of external_price read so far

vars == <<cfg, token_info, equilibriums, prices, tx_inval, pc, j, n_tx, txs,
          stats, batch_txs, batch_stats, initial_copy, token_info_copy,
          equilibrium_copy, err, last_call, solver, ctor, external_price>>

CrashTypes == {{}, {"B"}}

\* k = -1, the default of configure_simulation: the k values of the
\* constructor are kept.
KeepK == R(-1)
\* The k values configure_simulation may be called with.
KArgs == {KeepK, Zero, Q(1, 4), One}

\* configure_simulation(reset_tx, arb, arb_actions, multi_token, k) and
\* configure_crash_types(crash_type); multi_token is the engine class's.
\* arb_actions and crash_type vary where arbitrage() reads them, k where the
\* engine writes it (PMM.swap) and a reset is to undo the write.
Configs ==
    {c \in [engine : Engines, reset_tx : BOOLEAN, arb : BOOLEAN,
            arb_actions : 0..MaxArbActions, crash_type : CrashTypes,
            k : KArgs] :
        /\ \/ /\ c.arb /\ ~c.reset_tx
              /\ c.engine \notin {"CSMM", "MCSMM"}
           \/ c.arb_actions = MaxArbActions /\ c.crash_type = {}
        /\ c.k # KeepK => c.engine = "PMM" /\ c.reset_tx /\ ~c.arb}

\* Lines 52-54: every entry of the Pool State gets k as its last element.
SetK(ti, k) ==
    IF k = KeepK THEN ti
    ELSE [key \in DOMAIN ti |-> [ti[key] EXCEPT ![Len(ti[key])] = k]]

Unset == [t \in TokenSet |-> NONE]
NoCall == [kind |-> "none", tx |-> CHOOSE t \in TxObjs : TRUE,
           pre_ti |-> <<>>, pre_eq |-> <<>>, pre_inval |-> Zero,
           swap |-> SwapRes(NONE, <<>>, <<>>, NoOutput, Zero),
           arb |-> ArbRes(NONE, <<>>, <<>>, <<>>, <<>>, InitInfo, <<>>)]

\* No solver call in progress.
NoSolve == [pc |-> "off"]

\* MarketMakerInterface.__init__: the pairwise lists the engine keeps.
Constructed(pools, infos) ==
    [pairwise_pools |-> pools, pairwise_infos |-> infos]

Init ==
    /\ cfg \in Configs
    /\ equilibriums = IF IsMulti(cfg.engine) THEN MultiTokenPoolStatus
                      ELSE PairwiseTokenPoolStatus
    /\ token_info = SetK(equilibriums, cfg.k)
    /\ prices = Unset
    /\ tx_inval = [t \in TxObjs |-> t.inval]
    /\ pc = "idle"
    /\ j = 0
    /\ n_tx = 0
    /\ txs = <<>>
    /\ stats = <<>>
    /\ batch_txs = <<>>
    /\ batch_stats = <<>>
    /\ initial_copy = <<>>
    /\ token_info_copy = <<>>
    /\ equilibrium_copy = <<>>
    /\ err = NONE
    /\ last_call = NoCall
    /\ solver = NoSolve
    /\ ctor = Constructed(pairwise_pools, pairwise_infos)
    /\ external_price = <<>>

\* A reference to the live Pool State object instead of a copy of it, and
\* what a holder of a returned Pool State reads from it.
Live == <<"live">>
Read(ps) == IF ps = Live THEN token_info ELSE ps
\* Mutant: the live Pool State object is handed out.
DeepCopyAlias(ti) == Live
\* deepcopy(self.token_info): a Pool State of its own, with the values of ti.
DeepCopy(ti) == ti

\* A value the model cannot represent occurs in x (a sequence of numbers).
AnyBig(x) == \E i \in 1..Len(x) : x[i] = BIG

PoolBig(ti) == \E key \in DOMAIN ti : AnyBig(ti[key])
OutBig(o) ==
    AnyBig(<<o.inpool_init_val, o.outpool_init_val, o.inpool_after_val,
             o.outpool_after_val, o.market_rate, o.after_rate>>)

\* simulate_traffic, lines 84-92: entry, up to the loop over the batches.
\* p0 is external_price[0].
SimulateTraffic(p0) ==
    /\ pc = "idle"
    /\ prices' = p0
    /\ initial_copy' = DeepCopy(token_info)
    /\ txs' = <<>>
    /\ stats' = <<>>
    /\ IF cfg.reset_tx
       THEN token_info_copy' = token_info /\ equilibrium_copy' = equilibriums
       ELSE UNCHANGED <<token_info_copy, equilibrium_copy>>
    /\ pc' = "batch"
    /\ j' = 0
    /\ external_price' = <<p0>>
    /\ UNCHANGED <<ctor, solver, cfg, token_info, equilibriums, tx_inval, n_tx, batch_txs,
                   batch_stats, err, last_call>>

\* Mutant: the price vector of the previous batch stays in force.
BatchStartKeepsPrices(p) ==
    /\ pc = "batch"
    /\ j < MaxBatches
    /\ j = 0 => p = external_price[1]
    /\ external_price' = IF j = 0 THEN external_price
                          ELSE Append(external_price, p)
    /\ prices' = prices
    /\ batch_txs' = <<>>
    /\ batch_stats' = <<>>
    /\ IF cfg.reset_tx
       THEN /\ token_info' = token_info_copy
            /\ equilibriums' = equilibrium_copy
       ELSE UNCHANGED <<token_info, equilibriums>>
    /\ UNCHANGED <<token_info_copy, equilibrium_copy>>
    /\ n_tx' = 0
    /\ pc' = "tx"
    /\ UNCHANGED <<ctor, solver, cfg, tx_inval, j, txs, stats, initial_copy, err,
                   last_call>>

\* Lines 94-103: the next batch starts; p is external_price[j], which line
\* 84 has read already when j = 0.
BatchStart(p) ==
    /\ pc = "batch"
    /\ j < MaxBatches
    /\ j = 0 => p = external_price[1]
    /\ external_price' = IF j = 0 THEN external_price
                          ELSE Append(external_price, p)
    /\ prices' = p
    /\ batch_txs' = <<>>
    /\ batch_stats' = <<>>
    /\ IF cfg.reset_tx
       THEN /\ token_info' = token_info_copy
            /\ equilibriums' = equilibrium_copy
       ELSE UNCHANGED <<token_info, equilibriums>>
    /\ UNCHANGED <<token_info_copy, equilibrium_copy>>
    /\ n_tx' = 0
    /\ pc' = "tx"
    /\ UNCHANGED <<ctor, solver, cfg, tx_inval, j, txs, stats, initial_copy, err,
                   last_call>>

\* Mutant: a flagged transaction goes to arbitrage() whether or not arbitrage
\* is enabled.
TxCallFlagOnly(tx) ==
    IF tx.is_arb
    THEN [NoCall EXCEPT !.kind = "arb", !.tx = tx, !.pre_ti = token_info,
                        !.pre_eq = equilibriums, !.pre_inval = tx_inval[tx],
                        !.arb = arbitrage(cfg.engine, cfg.crash_type,
                                          cfg.arb_actions, token_info,
                                          equilibriums, prices)]
    ELSE [NoCall EXCEPT !.kind = "swap", !.tx = tx, !.pre_ti = token_info,
                        !.pre_eq = equilibriums, !.pre_inval = tx_inval[tx],
                        !.swap = EngineSwap(cfg.engine, token_info, equilibriums,
                                            prices, tx.intype, tx.outtype,
                                            tx_inval[tx], NONE)]

\* The call a transaction is routed to (lines 106-115) and what it did.
TxCall(tx) ==
    IF tx.is_arb /\ cfg.arb
    THEN [NoCall EXCEPT !.kind = "arb", !.tx = tx, !.pre_ti = token_info,
                        !.pre_eq = equilibriums, !.pre_inval = tx_inval[tx],
                        !.arb = arbitrage(cfg.engine, cfg.crash_type,
                                          cfg.arb_actions, token_info,
                                          equilibriums, prices)]
    ELSE [NoCall EXCEPT !.kind = "swap", !.tx = tx, !.pre_ti = token_info,
                        !.pre_eq = equilibriums, !.pre_inval = tx_inval[tx],
                        !.swap = EngineSwap(cfg.engine, token_info, equilibriums,
                                            prices, tx.intype, tx.outtype,
                                            tx_inval[tx], NONE)]

CallErr(c) == IF c.kind = "arb" THEN c.arb.err ELSE c.swap.err
CallTi(c) == IF c.kind = "arb" THEN c.arb.ti ELSE c.swap.ti
CallEq(c) == IF c.kind = "arb" THEN c.arb.eq ELSE c.swap.eq
CallOuts(c) == IF c.kind = "arb" THEN c.arb.outs ELSE <<c.swap.out>>
CallSnaps(c) ==
    IF c.kind = "arb"
    THEN [i \in 1..Len(c.arb.snaps) |-> DeepCopy(c.arb.snaps[i])]
    ELSE <<DeepCopy(c.swap.ti)>>

\* The call stays within the numbers of the model.
InRange(c) ==
    /\ CallErr(c) # BIG
    /\ ~PoolBig(CallTi(c))
    /\ ~PoolBig(CallEq(c))
    /\ \A i \in 1..Len(CallOuts(c)) : ~OutBig(CallOuts(c)[i])

\* Mutant: the Pool State is restored after every transaction, whatever
\* reset_tx says.
AfterTxAlwaysReset(reset_tx, ti, copy) == initial_copy
\* Mutant: the Pool State is never restored after a transaction.
AfterTxNeverReset(reset_tx, ti, copy) == ti

\* Lines 117-119: the Pool State a transaction leaves.
AfterTx(reset_tx, ti, copy) == IF reset_tx THEN copy ELSE ti

\* Lines 105-119: one transaction of the batch.
TxStep(tx) ==
    LET Step(c) ==
            /\ InRange(c)
            /\ last_call' = c
            /\ equilibriums' = CallEq(c)
            /\ tx_inval' = IF c.kind = "swap"
                           THEN [tx_inval EXCEPT ![tx] = c.swap.inval]
                           ELSE tx_inval
            /\ IF CallErr(c) # NONE
               THEN /\ token_info' = CallTi(c)
                    /\ err' = CallErr(c)
                    /\ pc' = "raised"
                    /\ UNCHANGED <<batch_txs, batch_stats, n_tx>>
               ELSE /\ token_info' =
                          AfterTx(cfg.reset_tx, CallTi(c), token_info_copy)
                    /\ batch_txs' = batch_txs \o CallOuts(c)
                    /\ batch_stats' = batch_stats \o CallSnaps(c)
                    /\ n_tx' = n_tx + 1
                    /\ UNCHANGED <<pc, err>>
    IN /\ pc = "tx"
       /\ n_tx < MaxTxPerBatch
       /\ Step(TxCall(tx))
       /\ UNCHANGED <<external_price, ctor, solver, cfg, prices, j, txs, stats, initial_copy, token_info_copy,
                      equilibrium_copy>>

\* Lines 121-122: the batch is exhausted.
BatchEnd ==
    /\ pc = "tx"
    /\ txs' = Append(txs, batch_txs)
    /\ stats' = Append(stats, batch_stats)
    /\ j' = j + 1
    /\ pc' = "batch"
    /\ UNCHANGED <<external_price, ctor, solver, cfg, token_info, equilibriums, prices, tx_inval, n_tx,
                   batch_txs, batch_stats, initial_copy, token_info_copy,
                   equilibrium_copy, err, last_call>>

\* Line 124: the traffic is exhausted.
Return ==
    /\ pc = "batch"
    /\ pc' = "done"
    /\ UNCHANGED <<external_price, ctor, solver, cfg, token_info, equilibriums, prices, tx_inval, j, n_tx,
                   txs, stats, batch_txs, batch_stats, initial_copy,
                   token_info_copy, equilibrium_copy, err, last_call>>

Next ==
    \/ \E p0 \in PriceVecs : SimulateTraffic(p0)
    \/ \E p \in PriceVecs : BatchStart(p)
    \/ \E tx \in TxObjs : TxStep(tx)
    \/ BatchEnd
    \/ Return

Spec == Init /\ [][Next]_vars

\* ------------------------------------------------------------------------
\* Properties
\* ------------------------------------------------------------------------
Pairwise == ~IsMulti(cfg.engine)
ConstantProduct == cfg.engine \in {"AMM", "MAMM"}
ConstantSum == cfg.engine \in {"CSMM", "MCSMM"}
Swapped == last_call.kind = "swap" /\ last_call.swap.err = NONE
Arbitraged == last_call.kind = "arb" /\ last_call.arb.err = NONE
\* The last call was made in the current batch, under the current prices.
InBatch == (pc = "tx" /\ n_tx > 0) \/ pc = "raised"

\* All outcomes and snapshots simulate_traffic has collected, in order.
RECURSIVE Flatten(_)
Flatten(ss) == IF ss = <<>> THEN <<>> ELSE Head(ss) \o Flatten(Tail(ss))
AllOutcomes == Flatten(txs) \o (IF pc \in {"tx", "raised"} THEN batch_txs ELSE <<>>)
AllSnapshots == Flatten(stats) \o (IF pc \in {"tx", "raised"} THEN batch_stats ELSE <<>>)

\* C1: in pairwise topology every pool (A,B) and its mirror (B,A) hold swapped
\* balances and the same k, after any sequence of swaps and arbitrage calls.
Mirrored(ti) ==
    \A pool \in DOMAIN ti :
        /\ <<pool[2], pool[1]>> \in DOMAIN ti
        /\ ti[pool][1] = ti[<<pool[2], pool[1]>>][2]
        /\ ti[pool][2] = ti[<<pool[2], pool[1]>>][1]
        /\ ti[pool][3] = ti[<<pool[2], pool[1]>>][3]
C1_MirrorInvariant == Pairwise => Mirrored(token_info)
\* A pairwise engine whose arbitrage() executed a trade after earlier swaps.
C1_Witness ==
    /\ Pairwise /\ Arbitraged /\ ~cfg.reset_tx
    /\ Len(last_call.arb.outs) > 0
    /\ last_call.pre_ti # initial_copy
    /\ token_info # last_call.pre_ti

C3_ConstantSumClamp ==
    ConstantSum =>
        /\ \A key \in DOMAIN token_info : Ge(token_info[key][1], Zero)
        /\ Pairwise => \A key \in DOMAIN token_info : Ge(token_info[key][2], Zero)
        /\ last_call.kind = "swap" /\ InBatch =>
            LET tx == last_call.tx
                d == last_call.pre_inval
                multi == IsMulti(cfg.engine)
                out0 == OutBal(multi, last_call.pre_ti, tx.intype, tx.outtype)
                in0 == InBal(multi, last_call.pre_ti, tx.intype, tx.outtype)
                want == Div(d, Div(prices[tx.outtype], prices[tx.intype]))
                o == last_call.swap.out
            IN /\ last_call.swap.err = NONE
               /\ o.inpool_init_val = in0 /\ o.outpool_init_val = out0
               /\ Le(Sub(o.outpool_init_val, o.outpool_after_val), out0)
               /\ IF Le(want, out0)
                  THEN /\ o.outpool_after_val = Sub(out0, want)
                       /\ o.inpool_after_val = Add(in0, d)
                       /\ OutBal(multi, last_call.swap.ti, tx.intype, tx.outtype)
                            = Sub(out0, want)
                  ELSE /\ o.outpool_after_val = out0
                       /\ o.inpool_after_val = in0
                       /\ last_call.swap.ti = last_call.pre_ti
\* A voided constant-sum swap: the order exceeds the output balance.
C3_Witness ==
    /\ ConstantSum /\ Swapped /\ InBatch
    /\ Gt(Div(last_call.pre_inval,
              Div(prices[last_call.tx.outtype], prices[last_call.tx.intype])),
          OutBal(IsMulti(cfg.engine), last_call.pre_ti,
                 last_call.tx.intype, last_call.tx.outtype))
    /\ Len(batch_txs) > 0

\* C4: arbitrage() of a constant-sum engine returns two empty lists and
\* leaves Pool State and Equilibrium Snapshot as they were.
C4_ConstantSumArbitrage ==
    ConstantSum /\ last_call.kind = "arb" =>
        /\ last_call.arb.err = NONE
        /\ last_call.arb.outs = <<>>
        /\ last_call.arb.snaps = <<>>
        /\ last_call.arb.ti = last_call.pre_ti
        /\ last_call.arb.eq = last_call.pre_eq
\* arbitrage() called on a constant-sum pool that earlier swaps moved away
\* from its configured balances, under prices that differ between tokens.
C4_Witness ==
    /\ ConstantSum /\ Arbitraged /\ InBatch
    /\ last_call.pre_ti # initial_copy
    /\ prices["A"] # prices["B"]

\* The trades the last arbitrage() call executed, in order.
Trades == IF last_call.kind = "arb" THEN last_call.arb.trace ELSE <<>>
\* getRate for the pool of trade t on the state the trade was executed on.
RateBefore(t) == getRate(cfg.engine, t.ti, t.eq, prices, t.info.pool)
\* The best candidate a scan of the state trade t was executed on yields.
ScanBefore(t) ==
    Scan(cfg.engine, cfg.crash_type, t.ti, t.eq, prices, 1, InitInfo)

\* C5: every trade arbitrage() executes has rateRatio > 1, where rateRatio is
\* what getRate returns for the traded pair on the Pool State and prices in
\* effect right before the trade, in every iteration of the loop.
C5_TradeRateAboveOne ==
    InBatch =>
        \A i \in 1..Len(Trades) :
            /\ RateBefore(Trades[i]).err = NONE
            /\ IsNum(RateBefore(Trades[i]).rate)
            /\ Gt(RateBefore(Trades[i]).rate, One)

\* C6: in every iteration the trade executed is the best candidate of a scan
\* of the Pool State at the start of that iteration, and the loop stops in the
\* first iteration whose scan yields no qualifying candidate.
C6_RescanEachIteration ==
    InBatch =>
        \A i \in 1..Len(Trades) :
            /\ ScanBefore(Trades[i]).err = NONE
            /\ ScanBefore(Trades[i]).info = Trades[i].info

\* C7: arbitrage() executes at most arb_actions swaps per call: the two lists
\* it builds have the same length, at most arb_actions, and 0 when arb_actions
\* is 0.
C7_AtMostArbActions ==
    last_call.kind = "arb" =>
        /\ Len(last_call.arb.outs) = Len(last_call.arb.snaps)
        /\ Len(last_call.arb.outs) <= cfg.arb_actions
        /\ cfg.arb_actions = 0 => last_call.arb.outs = <<>>
\* An arbitrage() call that used all of its arb_actions = 2 iterations.
C7_Witness ==
    /\ Arbitraged /\ cfg.arb_actions = MaxArbActions
    /\ Len(last_call.arb.outs) = cfg.arb_actions
    /\ Len(Trades) = cfg.arb_actions

\* The states the last arbitrage() call scanned with getRate: the state of the
\* call and the state every executed trade started from.
ScannedStates ==
    IF last_call.kind # "arb" \/ ConstantSum \/ cfg.arb_actions = 0 THEN {}
    ELSE {[ti |-> last_call.pre_ti, eq |-> last_call.pre_eq]}
         \cup {[ti |-> Trades[i].ti, eq |-> Trades[i].eq] : i \in 1..Len(Trades)}
\* Every pool of a scan that ran to its end.
ScannedPools(st) ==
    IF Scan(cfg.engine, cfg.crash_type, st.ti, st.eq, prices, 1, InitInfo).err
         # NONE
    THEN {}
    ELSE {ScanOrder(cfg.engine)[i] : i \in
            {x \in 1..Len(ScanOrder(cfg.engine)) :
                ScanOrder(cfg.engine)[x][2] \notin cfg.crash_type}}

\* C8: getRate returns rateRatio = 1 whenever the implied internal rate
\* inputNeeded/outputRemovable is zero or undefined, for any market rate.
C8_RateDefaultsToOne ==
    InBatch =>
        \A st \in ScannedStates : \A pool \in ScannedPools(st) :
            LET r == getRate(cfg.engine, st.ti, st.eq, prices, pool)
            IN r.err = NONE /\ IsNum(r.in_amt) /\ IsNum(r.out_amt)
               /\ (r.out_amt = Zero \/ r.in_amt = Zero)
                 => r.rate = One

Last(s) == s[Len(s)]
\* The Pool State the i-th collected swap started from.
StateBefore(i) == IF i = 1 THEN initial_copy ELSE AllSnapshots[i - 1]

\* C9: with reset_tx disabled nothing is restored between transactions or
\* batches: the before balances of every Outcome are the balances the
\* preceding swap left, the i-th snapshot holds the balances the i-th swap
\* left, and the last snapshot is the live Pool State.
C9_NoResetSequentialFold ==
    ~cfg.reset_tx /\ pc # "idle" =>
        /\ Len(AllOutcomes) = Len(AllSnapshots)
        /\ \A i \in 1..Len(AllOutcomes) :
            LET o == AllOutcomes[i]
                multi == IsMulti(cfg.engine)
            IN /\ o.inpool_init_val =
                    InBal(multi, StateBefore(i), o.in_type, o.out_type)
               /\ o.outpool_init_val =
                    OutBal(multi, StateBefore(i), o.in_type, o.out_type)
               /\ o.inpool_after_val =
                    InBal(multi, AllSnapshots[i], o.in_type, o.out_type)
               /\ o.outpool_after_val =
                    OutBal(multi, AllSnapshots[i], o.in_type, o.out_type)
        /\ pc # "raised" =>
              token_info = IF AllSnapshots = <<>> THEN initial_copy
                           ELSE Last(AllSnapshots)
\* Two batches, each with a swap that moved the pool, have been returned.
C9_Witness ==
    /\ ~cfg.reset_tx /\ pc = "done" /\ Len(txs) = MaxBatches
    /\ \A b \in 1..Len(txs) : Len(txs[b]) > 0
    /\ Len(AllSnapshots) >= 3
    /\ \A i \in 1..Len(AllSnapshots) : AllSnapshots[i] # StateBefore(i)

\* C10: with reset_tx enabled every transaction of every batch starts from
\* the Pool State the simulation started with, and that is the live Pool
\* State when simulate_traffic returns.
C10_ResetPerTransaction ==
    cfg.reset_tx /\ pc \in {"batch", "tx", "done"} => token_info = initial_copy
\* The second transaction of the second batch is about to start after swaps
\* that each moved the pool.
C10_Witness ==
    /\ cfg.reset_tx /\ pc = "tx" /\ j = 1 /\ n_tx = 1
    /\ Len(txs) = 1 /\ Len(txs[1]) > 0 /\ Len(batch_stats) > 0
    /\ \A i \in 1..Len(AllSnapshots) : AllSnapshots[i] # initial_copy

\* C11: with reset_tx enabled every transaction of every batch starts with the
\* Equilibrium Snapshot captured at the start of the simulation.
C11_EquilibriumResetPerTransaction ==
    cfg.reset_tx /\ pc \in {"batch", "tx", "done"} =>
        equilibriums = equilibrium_copy

\* The shape of the result lists, and what the call of one transaction did.
C12_Shape ==
    /\ Len(txs) = Len(stats)
    /\ pc \in {"batch", "done"} => Len(txs) = j
    /\ \A b \in 1..Len(txs) : Len(txs[b]) = Len(stats[b])
    /\ Len(batch_txs) = Len(batch_stats)
C12_TxRouted ==
    /\ last_call'.kind = "arb" <=> (last_call'.tx.is_arb /\ cfg.arb)
    /\ Len(batch_stats') - Len(batch_stats) = Len(batch_txs') - Len(batch_txs)
    /\ IF last_call'.kind = "arb"
       THEN /\ Len(batch_txs') - Len(batch_txs) \in 0..cfg.arb_actions
            /\ Len(batch_txs') - Len(batch_txs) = Len(last_call'.arb.trace)
            /\ \A i \in 1..Len(last_call'.arb.trace) :
                LET o == batch_txs'[Len(batch_txs) + i]
                    info == last_call'.arb.trace[i].info
                IN /\ <<o.in_type, o.out_type>> = info.pool
                   /\ Sub(o.inpool_after_val, o.inpool_init_val) = info.in_amt
            /\ last_call'.arb.trace = <<>> => token_info' = token_info
       ELSE /\ Len(batch_txs') - Len(batch_txs) = 1
            /\ batch_txs'[Len(batch_txs')].in_type = last_call'.tx.intype
            /\ batch_txs'[Len(batch_txs')].out_type = last_call'.tx.outtype
\* C12: a transaction goes to arbitrage() exactly when it is flagged and
\* arbitrage is enabled, and then adds between 0 and arb_actions outcomes
\* whose input amounts are the candidates', not its own; every other
\* transaction goes to swap(tx) and adds one Outcome and one snapshot.  The
\* result holds one outcome list and one snapshot list per batch, of equal
\* length.
C12_Routing ==
    [][/\ C12_Shape'
       /\ (pc = "tx" /\ n_tx' = n_tx + 1) => C12_TxRouted]_vars
\* A flagged transaction was executed by swap(tx) because arbitrage is
\* disabled, after an earlier transaction of the same batch.
C12_Witness ==
    /\ Swapped /\ last_call.tx.is_arb /\ ~cfg.arb
    /\ pc = "tx" /\ n_tx = 2 /\ Len(batch_txs) = 2

\* The Pool State simulate_traffic was called on.
StateAtCall ==
    SetK(IF IsMulti(cfg.engine) THEN MultiTokenPoolStatus
         ELSE PairwiseTokenPoolStatus, cfg.k)

\* C13: no Pool State handed to a caller (the snapshot of each swap, the
\* entries of the snapshot lists, the initial snapshot) is changed by a later
\* operation, and the initial snapshot is the Pool State simulate_traffic was
\* called on.
C13_NoAliasing ==
    [][pc # "idle" =>
        /\ Read(initial_copy)' = Read(initial_copy)
        /\ Read(initial_copy) = StateAtCall
        /\ Len(AllSnapshots') >= Len(AllSnapshots)
        /\ \A i \in 1..Len(AllSnapshots) :
              Read(AllSnapshots[i])' = Read(AllSnapshots[i])]_vars
\* The run has returned three or more snapshots, each of a state that later
\* operations moved away from.
C13_Witness ==
    /\ pc = "done" /\ ~cfg.reset_tx /\ Len(AllSnapshots) >= 3
    /\ \A i \in 1..(Len(AllSnapshots) - 1) :
          AllSnapshots[i] # AllSnapshots[i + 1]
    /\ initial_copy # token_info

\* ---------------------------------------------------------------------------
\* The four balances of two Outcomes agree; what holds after a PMM swap c.
SameBalances(o1, o2) ==
    /\ o1.inpool_init_val = o2.inpool_init_val
    /\ o1.outpool_init_val = o2.outpool_init_val
    /\ o1.inpool_after_val = o2.inpool_after_val
    /\ o1.outpool_after_val = o2.outpool_after_val

C14_PMMProbe(c, pool, e, probe, dry) ==
    /\ c.swap.ti[pool][1] = c.swap.out.inpool_after_val
    /\ c.swap.ti[pool][2] = c.swap.out.outpool_after_val
    /\ c.swap.eq[pool] = <<e[1], e[2], c.pre_ti[pool][3]>>
    /\ probe.err = NONE =>
          /\ probe.ti = c.swap.ti
          /\ probe.eq = c.swap.eq
    /\ dry.err = NONE
    /\ dry.ti = c.pre_ti
    /\ dry.eq = c.pre_eq
    /\ SameBalances(dry.out, c.swap.out)

\* C14: a swap called with execute = False changes neither the Pool State nor
\* the Equilibrium Snapshot and returns the Outcome balances the executing
\* call computes from the same state.  PMM.swap makes such a call after every
\* executed swap: the state the swap leaves is exactly the executed swap's
\* (balances of its Outcome, equilibrium written at lines 100-102), a further
\* call with execute = False on that state returns it unchanged, and the
\* same descriptor submitted with execute = False to the state before the
\* swap leaves that state alone and returns the balances of the executed
\* swap's Outcome.  The base swap with execute = False returns the Pool State
\* it was given.
C14_ExecuteFalse ==
    /\ Swapped /\ InBatch /\ cfg.engine = "PMM" =>
          C14_PMMProbe(last_call,
                       <<last_call.tx.intype, last_call.tx.outtype>>,
                       PMMCalculateEquilibriums(last_call.pre_ti,
                                                last_call.pre_eq, prices,
                                                last_call.tx.intype,
                                                last_call.tx.outtype),
                       PMMSwapExec(last_call.swap.ti, last_call.swap.eq, prices,
                                   last_call.tx.intype, last_call.tx.outtype,
                                   last_call.pre_inval, NONE, FALSE),
                       PMMSwapExec(last_call.pre_ti, last_call.pre_eq, prices,
                                   last_call.tx.intype, last_call.tx.outtype,
                                   last_call.pre_inval, NONE, FALSE))
    /\ pc # "idle" =>
          \A tx \in TxObjs :
              BaseSwapState(IsMulti(cfg.engine), token_info, tx.intype,
                            tx.outtype, tx.inval, One, FALSE) = token_info

\* A PMM swap that moved the pool off its equilibrium has been executed and
\* a probe on the state it left succeeds.
C14_Witness ==
    /\ Swapped /\ InBatch /\ cfg.engine = "PMM"
    /\ last_call.swap.ti # last_call.pre_ti
    /\ last_call.swap.eq # last_call.pre_eq
    /\ PMMSwapExec(last_call.swap.ti, last_call.swap.eq, prices,
                   last_call.tx.intype, last_call.tx.outtype,
                   last_call.pre_inval, NONE, FALSE).err = NONE

\* ---------------------------------------------------------------------------
\* C15: a swap called with an explicit out_amt removes exactly that amount
\* from the output balance and adds tx.inval to the input balance.  The only
\* caller that passes out_amt is arbitrage (lines 231-235): every trade of an
\* arbitrage call moves the pool by the candidate's in_amt and out_amt.
C15_ExplicitOutputAmount ==
    Arbitraged /\ InBatch =>
        \A i \in 1..Len(Trades) :
            /\ Sub(last_call.arb.outs[i].outpool_init_val,
                   last_call.arb.outs[i].outpool_after_val)
                    = Trades[i].info.out_amt
            /\ Sub(last_call.arb.outs[i].inpool_after_val,
                   last_call.arb.outs[i].inpool_init_val)
                    = Trades[i].info.in_amt

\* ---------------------------------------------------------------------------
\* C16: no engine operation changes a field of a transaction descriptor: at
\* every point of a simulation each descriptor carries the inval it was
\* created with.
C16_DescriptorsImmutable ==
    \A tx \in DOMAIN tx_inval : tx_inval[tx] = tx.inval

\* ---------------------------------------------------------------------------
\* No crash-token balance is lower in `after` than in `before`; a rate
\* a scan would accept.
CrashBalancesKept(before, after) ==
    IF IsMulti(cfg.engine)
    THEN \A t \in cfg.crash_type : ~Lt(after[t][1], before[t][1])
    ELSE \A pool \in DOMAIN after :
            /\ pool[1] \in cfg.crash_type => ~Lt(after[pool][1], before[pool][1])
            /\ pool[2] \in cfg.crash_type => ~Lt(after[pool][2], before[pool][2])

C17_Offers(rate_dict) ==
    rate_dict.err = NONE /\ IsNum(rate_dict.rate) /\ Gt(rate_dict.rate, One)
        /\ IsNum(rate_dict.in_amt) /\ GtLim(rate_dict.in_amt)

\* C17: arbitrage() never executes a swap whose output token is a crash
\* token, in any iteration and in both topologies, and no arbitrage() call
\* lowers the balance of a crash token.
C17_NoCrashTokenOutput ==
    last_call.kind = "arb" /\ InBatch =>
        /\ \A i \in 1..Len(Trades) : Trades[i].info.pool[2] \notin cfg.crash_type
        /\ \A i \in 1..Len(last_call.arb.outs) :
              last_call.arb.outs[i].out_type \notin cfg.crash_type
        /\ last_call.arb.err = NONE =>
              CrashBalancesKept(last_call.pre_ti, last_call.arb.ti)

\* An arbitrage call with crash token B has traded although a pool paying
\* out B offered a rate above 1 when the call began.
C17_Witness ==
    /\ Arbitraged /\ InBatch /\ cfg.crash_type = {"B"}
    /\ Len(Trades) > 0
    /\ \E i \in 1..Len(ScanOrder(cfg.engine)) :
          /\ ScanOrder(cfg.engine)[i][2] = "B"
          /\ C17_Offers(getRate(cfg.engine, last_call.pre_ti, last_call.pre_eq,
                                prices, ScanOrder(cfg.engine)[i]))

\* ---------------------------------------------------------------------------
\* The candidates of a scan on the state trade t was executed on.
RateAt(t, idx) ==
    getRate(cfg.engine, t.ti, t.eq, prices, ScanOrder(cfg.engine)[idx])

EligibleRate(pool, rate_dict) ==
    /\ pool[2] \notin cfg.crash_type
    /\ rate_dict.err = NONE
    /\ IsNum(rate_dict.rate) /\ IsNum(rate_dict.in_amt)
    /\ GtLim(rate_dict.in_amt)

Eligible(t, idx) == EligibleRate(ScanOrder(cfg.engine)[idx], RateAt(t, idx))

IndexOf(pool) ==
    CHOOSE idx \in 1..Len(ScanOrder(cfg.engine)) :
        ScanOrder(cfg.engine)[idx] = pool

Carried(i) == IF i = 1 THEN InitInfo ELSE Trades[i - 1].info

FirstBest(t, c, carried) ==
    IF t.info = carried
    THEN \A idx \in 1..Len(ScanOrder(cfg.engine)) :
            Eligible(t, idx) => ~Gt(RateAt(t, idx).rate, carried.rate)
    ELSE /\ Gt(t.info.rate, carried.rate)
         /\ Eligible(t, c)
         /\ RateAt(t, c).rate = t.info.rate
         /\ \A idx \in 1..Len(ScanOrder(cfg.engine)) :
               Eligible(t, idx) =>
                   \/ Lt(RateAt(t, idx).rate, t.info.rate)
                   \/ RateAt(t, idx).rate = t.info.rate /\ idx >= c

SolverVals == {Q(1, 2), One, Two}
SolverKs == {Q(1, 2), One}
SolverPs == {One, Four}

SolverArgs ==
    [s : SolverVals, l : SolverVals, k : SolverKs, p : SolverPs,
     S : SolverVals, L : SolverVals]

\* a ** n for a natural number n.
RECURSIVE Pow(_, _)
Pow(a, n) == IF n = 0 THEN One ELSE Mul(a, Pow(a, n - 1))

\* A term t = <<c, ek, el, eL, ep, es, eS>> of __argMin:
\* c * k**ek * l**el * L**eL * p**ep * s**es * S**eS.
Term(a, t) ==
    Mul(Mul(Mul(Mul(Mul(Mul(Pow(a.k, t[2]), Pow(a.l, t[3])), Pow(a.L, t[4])),
                    Pow(a.p, t[5])), Pow(a.s, t[6])), Pow(a.S, t[7])),
        R(t[1]))

\* The sum of the terms ts[i..n].
RECURSIVE SumTerms(_, _, _, _)
SumTerms(a, ts, i, n) ==
    IF i > n THEN Zero ELSE Add(Term(a, ts[i]), SumTerms(a, ts, i + 1, n))

\* x1 = t1+t2+t3+t4
X1Terms ==
    << <<4, 1, 0, 2, 1, 1, 2>>, <<4, 2, 1, 0, 2, 0, 4>>,
       <<8, 2, 0, 1, 2, 0, 4>>, <<1, 1, 0, 0, 3, 1, 4>> >>

\* x2 = t5+t6+t7+t8+t9+t10 (t5 is a sum of two terms)
X2Terms ==
    << <<1, 0, 0, 4, 0, 2, 0>>, <<4, 1, 1, 2, 1, 1, 2>>,
       <<4, 1, 0, 3, 1, 1, 2>>, <<1, 0, 0, 2, 2, 2, 2>>,
       <<8, 2, 1, 1, 2, 0, 4>>, <<4, 2, 0, 2, 2, 0, 4>>,
       <<2, 1, 0, 1, 3, 1, 4>> >>

\* x3 = t11-t12+t13+t14-t15+...-t34
X3Terms ==
    << <<1024, 3, 0, 6, 3, 3, 6>>, <<-6144, 4, 1, 4, 4, 2, 8>>,
       <<6144, 4, 0, 5, 4, 2, 8>>, <<5376, 3, 0, 4, 5, 3, 8>>,
       <<-27648, 4, 0, 4, 5, 3, 8>>, <<27648, 5, 0, 4, 5, 3, 8>>,
       <<27648, 4, 0, 4, 5, 2, 9>>, <<-55296, 5, 0, 4, 5, 2, 9>>,
       <<12288, 5, 2, 2, 5, 1, 10>>, <<-24576, 5, 1, 3, 5, 1, 10>>,
       <<39936, 5, 0, 4, 5, 1, 10>>, <<6144, 4, 1, 2, 6, 2, 10>>,
       <<-6144, 4, 0, 3, 6, 2, 10>>, <<768, 3, 0, 2, 7, 3, 10>>,
       <<-8192, 6, 3, 0, 6, 0, 12>>, <<24576, 6, 2, 1, 6, 0, 12>>,
       <<-24576, 6, 1, 2, 6, 0, 12>>, <<8192, 6, 0, 3, 6, 0, 12>>,
       <<-6144, 5, 2, 0, 7, 1, 12>>, <<12288, 5, 1, 1, 7, 1, 12>>,
       <<-6144, 5, 0, 2, 7, 1, 12>>, <<-1536, 4, 1, 0, 8, 2, 12>>,
       <<1536, 4, 0, 1, 8, 2, 12>>, <<-128, 3, 0, 0, 9, 3, 12>> >>

\* t35 = k**2*p**2*S**4
T35Term == <<1, 2, 0, 0, 2, 0, 4>>

\* Largest integer the arithmetic of the model forms: a.n * b.d + b.n * a.d.
WideMax == 2 * MaxMag * MaxMag
Fits(m, n) == m = 0 \/ n <= WideMax \div m

\* Whether x3**2 + 4*x4**3 < 0 can be decided within WideMax, and whether
\* it is, for x4 < 0: x3.n^2 * x4.d^3 < 4 * |x4.n|^3 * x3.d^2.
DiscriminantFits(x3, x4) ==
    /\ Abs(x4.n) <= 766 /\ x4.d <= 1216
    /\ Fits(x3.n * x3.n, x4.d * x4.d * x4.d)
    /\ Fits(4 * Abs(x4.n) * Abs(x4.n) * Abs(x4.n), x3.d * x3.d)
DiscriminantNegative(x3, x4) ==
    x3.n * x3.n * (x4.d * x4.d * x4.d)
        < 4 * Abs(x4.n) * Abs(x4.n) * Abs(x4.n) * (x3.d * x3.d)

\* MPMM.__argMin.  x5 = (x3+(x3**2+4*x4**3)**0.5)**(1/3) is complex when the
\* discriminant is negative or the base of the cube root is; it is 0, and
\* x4/(...*x5) raises ZeroDivisionError, when x4 = 0 and x3 <= 0.  The value
\* itself needs cube roots and is kept as the quantities it is computed
\* from; `part` tells what of ans is returned (lines 97-100): the real part
\* of a complex ans, or ans.
ArgMin(a) ==
    LET Quartic(x1, x3, x4, t35) ==
            IF ~IsNum(x1) \/ ~IsNum(x3) \/ ~IsNum(x4) \/ ~IsNum(t35)
            THEN [status |-> "range", part |-> "none", x1 |-> x1, x3 |-> x3,
                  x4 |-> x4, t35 |-> t35]
            ELSE IF x4.n < 0 /\ ~DiscriminantFits(x3, x4)
            THEN [status |-> "range", part |-> "none", x1 |-> x1, x3 |-> x3,
                  x4 |-> x4, t35 |-> t35]
            ELSE IF x4.n < 0 /\ (x3.n < 0 \/ DiscriminantNegative(x3, x4))
            THEN [status |-> "complex", part |-> "ans.real", x1 |-> x1,
                  x3 |-> x3, x4 |-> x4, t35 |-> t35]
            ELSE IF x4.n = 0 /\ x3.n <= 0
            THEN [status |-> "raised", part |-> "none", x1 |-> x1, x3 |-> x3,
                  x4 |-> x4, t35 |-> t35]
            ELSE [status |-> "real", part |-> "ans", x1 |-> x1, x3 |-> x3,
                  x4 |-> x4, t35 |-> t35]
        WithX2(x1, x2, t35) ==
            Quartic(x1,
                    Add(Add(SumTerms(a, X3Terms, 1, 8),
                            SumTerms(a, X3Terms, 9, 16)),
                        SumTerms(a, X3Terms, 17, 24)),
                    Add(Mul(R(-16), Mul(x1, x1)), Mul(R(192), Mul(t35, x2))),
                    t35)
    IN WithX2(SumTerms(a, X1Terms, 1, 4), SumTerms(a, X2Terms, 1, 7),
              Term(a, T35Term))

\* MPMM.__getEquilibrium(short, long, k, p) with s, l the balances and S, L
\* the stored equilibrium of the two tokens: l_e is what __argMin returns;
\* __newtonMethod is not called.
getEquilibrium(a) ==
    LET Result(q) ==
            [quartic |-> q,
             l_e |-> IF q.status \in {"real", "complex"}
                     THEN [from |-> "__argMin", part |-> q.part]
                     ELSE [from |-> "none", part |-> "none"]]
    IN Result(ArgMin(a))

\* self.float_tolerance = 1e-5
FloatToleranceDen == 100000
\* abs(a) > self.float_tolerance
ExceedsTolerance(a) == Abs(a.n) > a.d \div FloatToleranceDen

\* if i >= 1000
IterCap == 1000

\* Floats have finite precision.  The iterates of the Newton solver are
\* multiples of 1 / Grid; the result of an operation that yields an iterate
\* is rounded to the nearest of them, a tie to the even one.
Grid == 16
RoundGrid(a) ==
    LET Nearest(fl, rem2) ==
            IF rem2 > a.d \/ (rem2 = a.d /\ fl % 2 = 1)
            THEN Norm(fl + 1, Grid) ELSE Norm(fl, Grid)
    IN IF ~IsNum(a) THEN a
       ELSE Nearest((a.n * Grid) \div a.d, 2 * ((a.n * Grid) % a.d))

\* math.sqrt of a negative number raises ValueError.
VALERR == [n |-> 5, d |-> 0]
Raises(v) == IsRaised(v) \/ v = VALERR

\* (4*k*(l-x))/(p*s)+1
Radicand(x, a) ==
    Add(Div(Mul(Mul(Four, a.k), Sub(a.l, x)), Mul(a.p, a.s)), One)

\* 1-((s*(sqrt(r)-1))/(2*k)+s)/S with q = sqrt(r)
ShortGap(a, q) ==
    Sub(One, Div(Add(Div(Mul(a.s, Sub(q, One)), Mul(Two, a.k)), a.s), a.S))

\* MPMM.__first_deriv
first_deriv(x, a) ==
    LET Value(q) ==
            Sub(Div(Mul(Two, ShortGap(a, q)), Mul(Mul(a.S, a.p), q)),
                Div(Mul(Two, Sub(One, Div(x, a.L))), a.L))
        At(r) ==
            IF ~IsNum(r) THEN r
            ELSE IF r.n < 0 THEN VALERR
            ELSE Value(Sqrt(r))
    IN At(Radicand(x, a))

\* MPMM.__second_deriv
second_deriv(x, a) ==
    LET Value(r, q) ==
            Add(Add(Div(Two, Mul(Mul(Mul(a.S, a.S), Mul(a.p, a.p)), r)),
                    Div(Mul(Mul(Four, a.k), ShortGap(a, q)),
                        Mul(Mul(Mul(a.S, Mul(a.p, a.p)), a.s), Mul(r, q)))),
                Div(Two, Mul(a.L, a.L)))
        At(r) ==
            IF ~IsNum(r) THEN r
            ELSE IF r.n = 0 THEN ZDE
            ELSE IF r.n < 0 THEN VALERR
            ELSE Value(r, Sqrt(r))
    IN At(Radicand(x, a))

\* new_x = x - func / deriv (lines 150-152)
NewtonStepFrom(x, a) ==
    LET Step(func, deriv) ==
            IF Raises(func) THEN func
            ELSE IF Raises(deriv) THEN deriv
            ELSE RoundGrid(Sub(x, Div(func, deriv)))
    IN Step(first_deriv(x, a), second_deriv(x, a))

\* What the body of the `while True` loop finds at new_x (lines 155-163):
\* "halve" when an exception is raised or a value is NaN or complex,
\* "break" otherwise; "range" when a value leaves the range of the model.
ProbeAt(new_x, a) ==
    LET Found(new_func, new_deriv) ==
            IF Raises(new_func) \/ Raises(new_deriv) THEN "halve"
            ELSE IF new_func = BIG \/ new_deriv = BIG THEN "range"
            ELSE IF ~IsNum(new_func) \/ ~IsNum(new_deriv) THEN "halve"
            ELSE "break"
    IN Found(first_deriv(new_x, a), second_deriv(new_x, a))

MinQ(a, b) == IF Lt(b, a) THEN b ELSE a

\* approx = min(s/S, l/L) * min([s, S, l, L])
InitialApprox(a) ==
    RoundGrid(Mul(MinQ(Div(a.s, a.S), Div(a.l, a.L)),
                  MinQ(MinQ(a.s, a.S), MinQ(a.l, a.L))))

\* A solver call: pc is "idle" before the call, "damp" inside the
\* `while True` loop of __update_approx, "test" at the loop condition of
\* __newtonMethod, "returned" / "raised" after the call, and "range" when a
\* value left the range of the model.
SolverCall(a) ==
    [pc |-> "idle", fn |-> "none", args |-> a,
     quartic |-> [status |-> "none"], l_e |-> [from |-> "none", part |-> "none"],
     approx |-> Zero, new_x |-> Zero, i |-> 0, first |-> TRUE, ret |-> NONE,
     err |-> NONE]

SolverInit ==
    /\ cfg = [engine |-> "MPMM", reset_tx |-> FALSE, arb |-> FALSE,
              arb_actions |-> 0, crash_type |-> {}, k |-> KeepK]
    /\ equilibriums = MultiTokenPoolStatus
    /\ token_info = MultiTokenPoolStatus
    /\ prices = Unset
    /\ tx_inval = [t \in TxObjs |-> t.inval]
    /\ pc = "idle"
    /\ j = 0
    /\ n_tx = 0
    /\ txs = <<>>
    /\ stats = <<>>
    /\ batch_txs = <<>>
    /\ batch_stats = <<>>
    /\ initial_copy = <<>>
    /\ token_info_copy = <<>>
    /\ equilibrium_copy = <<>>
    /\ err = NONE
    /\ last_call = NoCall
    /\ solver \in {SolverCall(a) : a \in SolverArgs}
    /\ ctor = Constructed(pairwise_pools, pairwise_infos)
    /\ external_price = <<>>

EngineVars ==
    <<cfg, token_info, equilibriums, prices, tx_inval, pc, j, n_tx, txs, stats,
      batch_txs, batch_stats, initial_copy, token_info_copy, equilibrium_copy,
      err, last_call, ctor, external_price>>

\* self.__getEquilibrium(...)
GetEquilibrium ==
    LET Done(r) ==
            solver' = [solver EXCEPT
                          !.fn = "getEquilibrium",
                          !.quartic = r.quartic,
                          !.l_e = r.l_e,
                          !.err = IF r.quartic.status = "raised" THEN ZDE
                                  ELSE NONE,
                          !.pc = IF r.quartic.status = "raised" THEN "raised"
                                 ELSE IF r.quartic.status = "range" THEN "range"
                                 ELSE "returned"]
    IN /\ solver.pc = "idle"
       /\ Done(getEquilibrium(solver.args))
       /\ UNCHANGED EngineVars

\* The solver state once __update_approx(x, ...) has computed new_x and
\* enters its `while True` loop.
UpdateFrom(sv, x) ==
    LET Entered(new_x) ==
            IF Raises(new_x) THEN [sv EXCEPT !.pc = "raised", !.err = new_x]
            ELSE IF ~IsNum(new_x) THEN [sv EXCEPT !.pc = "range"]
            ELSE [sv EXCEPT !.pc = "damp", !.approx = x, !.new_x = new_x]
    IN Entered(NewtonStepFrom(x, sv.args))

\* self.__newtonMethod(...) up to the first pass of the `while True` loop
\* (lines 120-121, 150-154).
NewtonMethod ==
    /\ solver.pc = "idle"
    /\ solver' = UpdateFrom([solver EXCEPT !.fn = "newtonMethod"],
                            InitialApprox(solver.args))
    /\ UNCHANGED EngineVars

\* One pass of the `while True` loop that does not leave it:
\* new_x = (x + new_x) / 2 (lines 158-159, 162-163).
DampHalve ==
    LET Halved(h) ==
            IF IsNum(h) THEN [solver EXCEPT !.new_x = h]
            ELSE [solver EXCEPT !.pc = "range"]
        Pass(found) ==
            /\ found # "break"
            /\ solver' = IF found = "range" THEN [solver EXCEPT !.pc = "range"]
                         ELSE Halved(RoundGrid(Div(Add(solver.approx,
                                                       solver.new_x), Two)))
    IN /\ solver.pc = "damp"
       /\ Pass(ProbeAt(solver.new_x, solver.args))
       /\ UNCHANGED EngineVars

\* The pass that breaks: __update_approx returns new_x; inside the loop of
\* __newtonMethod i is incremented and checked against the cap, where
\* print(1/0) raises ZeroDivisionError (lines 125-129).
UpdateReturn ==
    /\ solver.pc = "damp"
    /\ ProbeAt(solver.new_x, solver.args) = "break"
    /\ solver' = IF solver.first
                 THEN [solver EXCEPT !.first = FALSE, !.pc = "test"]
                 ELSE IF solver.i + 1 >= IterCap
                 THEN [solver EXCEPT !.i = @ + 1, !.pc = "raised", !.err = ZDE]
                 ELSE [solver EXCEPT !.i = @ + 1, !.pc = "test"]
    /\ UNCHANGED EngineVars

\* while abs(new_approx - approx) > self.float_tolerance (line 123): the
\* next __update_approx call, or return new_approx (line 131).
LoopTest ==
    /\ solver.pc = "test"
    /\ solver' = IF ExceedsTolerance(Sub(solver.new_x, solver.approx))
                 THEN UpdateFrom(solver, solver.new_x)
                 ELSE [solver EXCEPT !.pc = "returned", !.ret = solver.new_x]
    /\ UNCHANGED EngineVars

SolverNext ==
    \/ GetEquilibrium
    \/ NewtonMethod
    \/ DampHalve
    \/ UpdateReturn
    \/ LoopTest

SolverSpec == SolverInit /\ [][SolverNext]_vars

\* ---------------------------------------------------------------------------
\* C19: when the closed-form quartic formula yields a complex result, the
\* solver discards it and the excess-side equilibrium it returns comes from
\* Newton's method.
C19_ComplexFallsBackToNewton ==
    solver.pc = "returned" /\ solver.fn = "getEquilibrium"
        /\ solver.quartic.status = "complex" =>
            solver.l_e.from = "__newtonMethod"

\* ---------------------------------------------------------------------------
\* A pass of the `while True` loop leaves the solver where it was.
DampingStuck ==
    /\ solver.pc = "damp"
    /\ ProbeAt(solver.new_x, solver.args) = "halve"
    /\ RoundGrid(Div(Add(solver.approx, solver.new_x), Two)) = solver.new_x

\* C20: the Newton solver is bounded: at most IterCap passes of the outer
\* loop, a value is returned only when the last two iterates differ by no
\* more than the tolerance, and no call loops forever.  The outer loop is
\* cut by the cap; a pass of the `while True` loop that does not leave it
\* moves new_x towards x, so that loop runs forever exactly when a pass
\* leaves new_x where it was.
C20_NewtonBounded ==
    solver.pc # "off" /\ solver.fn = "newtonMethod" =>
        /\ solver.i <= IterCap
        /\ solver.pc = "returned" =>
              ~ExceedsTolerance(Sub(solver.ret, solver.approx))
        /\ ~DampingStuck

\* ------------------------------------------------------------------------
\* Construction and configuration of a pairwise engine on arbitrary lists
\* (MarketMakerInterface.__init__, configure_simulation): the constructor
\* keeps the two lists as they are and configure_simulation zips them.
\* ------------------------------------------------------------------------
\* The balance entry Initializer.configure_tokens gives a pair.
InfoOf(pair) ==
    pairwise_infos[CHOOSE i \in 1..Len(pairwise_pools) : pairwise_pools[i] = pair]
InfosFor(pools) == [i \in 1..Len(pools) |-> InfoOf(pools[i])]

\* Pool lists: every pair in both directions; the same without (B,A), the
\* mirror of (A,B); one pair in both directions.
NoMirrorPools ==
    << <<"A", "B">>, <<"A", "C">>, <<"C", "A">>, <<"B", "C">>, <<"C", "B">> >>
PoolLists == {pairwise_pools, NoMirrorPools, << <<"A", "B">>, <<"B", "A">> >>}
InfoLists == {InfosFor(pools) : pools \in PoolLists}
ConstructorArgs ==
    {Constructed(pools, infos) : pools \in PoolLists, infos \in InfoLists}

ConfigArgs ==
    {c \in Configs : /\ c.engine \in {"AMM", "CSMM", "PMM"}
                     /\ ~c.reset_tx /\ ~c.arb /\ c.k = KeepK}

\* An engine that has been constructed and not configured: token_info and
\* equilibriums are None.
ConfigInit ==
    /\ cfg \in ConfigArgs
    /\ ctor \in ConstructorArgs
    /\ external_price = <<>>
    /\ token_info = <<>>
    /\ equilibriums = <<>>
    /\ prices = Unset
    /\ tx_inval = [t \in TxObjs |-> t.inval]
    /\ pc = "new"
    /\ j = 0
    /\ n_tx = 0
    /\ txs = <<>>
    /\ stats = <<>>
    /\ batch_txs = <<>>
    /\ batch_stats = <<>>
    /\ initial_copy = <<>>
    /\ token_info_copy = <<>>
    /\ equilibrium_copy = <<>>
    /\ err = NONE
    /\ last_call = NoCall
    /\ solver = NoSolve

\* configure_simulation, lines 40-54, with the arguments cfg.
ConfigureSimulation ==
    LET Configured(status) ==
            /\ equilibriums' = DeepCopy(status)
            /\ token_info' = SetK(status, cfg.k)
    IN /\ pc = "new"
       /\ Configured(IF IsMulti(cfg.engine) THEN MultiTokenPoolStatus
                     ELSE PairwiseTokenPoolStatusOf(ctor.pairwise_pools,
                                                    ctor.pairwise_infos))
       /\ pc' = "idle"
       /\ UNCHANGED <<external_price, ctor, solver, cfg, prices, tx_inval, j, n_tx, txs, stats,
                      batch_txs, batch_stats, initial_copy, token_info_copy,
                      equilibrium_copy, err, last_call>>

ConfigNext ==
    \/ ConfigureSimulation
    \/ Next

ConfigSpec == ConfigInit /\ [][ConfigNext]_vars

\* The two lists the engine was constructed with differ in length.
LengthMismatch == Len(ctor.pairwise_pools) # Len(ctor.pairwise_infos)

\* C21: configuring a pairwise engine whose pool list and balance list differ
\* in length is signalled to the caller as an error; the engine is never
\* left configured with a prefix of the pools.
C21_LengthMismatchSignalled ==
    ~IsMulti(cfg.engine) /\ LengthMismatch => pc \in {"new", "raised"}

\* C29: a pairwise swap that raises because an entry of the traded pair is
\* missing from the Pool State leaves the Pool State exactly as it was before
\* the call.
C29_FailingSwapAtomic ==
    ~IsMulti(cfg.engine) /\ last_call.kind = "swap"
        /\ last_call.swap.err = KEYERR
    => last_call.swap.ti = last_call.pre_ti /\ token_info = last_call.pre_ti

\* ------------------------------------------------------------------------
\* The division that computes after_rate in call c raised ZeroDivisionError:
\* amm.py lines 40-41 (mamm.py alike) after line 36 went through, pmm.py
\* lines 106-107 on the Outcome of the call of line 104.
RateDivisionByZero(c) ==
    LET multi == IsMulti(cfg.engine)
        intype == c.tx.intype
        outtype == c.tx.outtype
        CP(in0, out0) ==
            /\ IsNum(CPOutAmt(in0, out0, c.pre_inval))
            /\ CPAfterRate(in0, out0, c.pre_inval) = ZDE
        Probed(probe) ==
            /\ probe.err = NONE
            /\ Div(c.pre_inval, Sub(probe.out.outpool_init_val,
                                    probe.out.outpool_after_val)) = ZDE
    IN /\ c.kind = "swap"
       /\ CASE ConstantProduct ->
                  CP(InBal(multi, c.pre_ti, intype, outtype),
                     OutBal(multi, c.pre_ti, intype, outtype))
            [] cfg.engine = "PMM" ->
                  /\ c.swap.err = NONE
                  /\ Probed(PMMSwapExec(c.swap.ti, c.swap.eq, prices, intype,
                                        outtype, c.pre_inval, NONE, FALSE))
            [] OTHER -> FALSE

\* C22: when the computation of after_rate divides by zero the swap still
\* succeeds: the balances of the pair are updated, the Outcome and the
\* snapshot are returned, and after_rate carries no computed rate: it is
\* still the 1 that MarketMakerInterface.swap puts there (line 170).
C22_DiagnosticDivisionSwallowed ==
    InBatch /\ RateDivisionByZero(last_call) =>
        /\ last_call.swap.err = NONE
        /\ pc = "tx"
        /\ InBal(IsMulti(cfg.engine), last_call.swap.ti, last_call.tx.intype,
                 last_call.tx.outtype)
              = Add(InBal(IsMulti(cfg.engine), last_call.pre_ti,
                          last_call.tx.intype, last_call.tx.outtype),
                    last_call.pre_inval)
        /\ OutBal(IsMulti(cfg.engine), last_call.swap.ti, last_call.tx.intype,
                  last_call.tx.outtype)
              = last_call.swap.out.outpool_after_val
        /\ Last(batch_txs) = last_call.swap.out
        /\ Read(Last(batch_stats)) = last_call.swap.ti
        /\ last_call.swap.out.after_rate = One
\* A constant-product swap of input amount 0 has been executed.
C22_Witness ==
    /\ InBatch /\ ConstantProduct /\ RateDivisionByZero(last_call)
    /\ last_call.pre_inval = Zero
    /\ Len(batch_txs) > 0

\* ------------------------------------------------------------------------
\* The Equilibrium Snapshot configure_simulation captured (lines 47, 50).
ConfiguredEquilibriums ==
    IF IsMulti(cfg.engine) THEN MultiTokenPoolStatus
    ELSE PairwiseTokenPoolStatusOf(ctor.pairwise_pools, ctor.pairwise_infos)

\* PMM.swap on state (ti, eq) for pool left the Equilibrium Snapshot after:
\* the pair and its mirror hold the equilibrium computed from (ti, eq).
EquilibriumReplaced(ti, eq, pool, after) ==
    LET Written(e) ==
            /\ after[pool] = <<e[1], e[2], ti[pool][3]>>
            /\ after[<<pool[2], pool[1]>>] = <<e[2], e[1], ti[pool][3]>>
    IN Written(PMMCalculateEquilibriums(ti, eq, prices, pool[1], pool[2]))

\* C23: for the constant-product and constant-sum engines the Equilibrium
\* Snapshot is the one captured at configuration time, at every point of any
\* run; for the pairwise PMM every executed swap on (in,out) replaces the
\* stored equilibrium of the pair (and its mirror) by the equilibrium computed
\* from the state before the swap.
C23_EquilibriumSnapshot ==
    /\ ConstantProduct \/ ConstantSum =>
          /\ equilibriums = ConfiguredEquilibriums
          /\ pc # "idle" /\ cfg.reset_tx =>
                equilibrium_copy = ConfiguredEquilibriums
    /\ cfg.engine = "PMM" /\ Swapped /\ InBatch =>
          /\ EquilibriumReplaced(last_call.pre_ti, last_call.pre_eq,
                                 <<last_call.tx.intype, last_call.tx.outtype>>,
                                 last_call.swap.eq)
          /\ equilibriums = last_call.swap.eq
\* The run of a constant-product engine has returned after swaps and an
\* arbitrage trade that moved the Pool State away from the configured one.
C23_Witness ==
    /\ ConstantProduct /\ pc = "done"
    /\ token_info # ConfiguredEquilibriums
    /\ \E b \in 1..Len(txs) : Len(txs[b]) >= 3

\* ------------------------------------------------------------------------
\* MPMM.calculate_equilibriums (src/mpmm.py lines 217-239): the choice among
\* the current balances and the two results of __getEquilibrium.  The two
\* results are inputs here: (in_1, out_1) of line 225 and (in_2, out_2) of
\* line 231, real or complex.
\* ------------------------------------------------------------------------
\* MPMM.__distSq
distSq(x0, y0, x1, y1) ==
    LET Squares(a, b) == Add(Mul(a, a), Mul(b, b))
    IN Squares(Sub(One, Div(x1, x0)), Sub(One, Div(y1, y0)))

\* a + self.float_tolerance >= b
TolGe(a, b) ==
    (a.n * FloatToleranceDen + a.d) * b.d >= b.n * a.d * FloatToleranceDen

\* Lines 226-228 (232-234): the candidate is real and lies, within the
\* tolerance, on one side of the current balances.
Admitted(c, in_0, out_0) ==
    /\ IsNum(c[1]) /\ IsNum(c[2])
    /\ \/ TolGe(c[1], in_0) /\ TolGe(out_0, c[2])
       \/ TolGe(c[2], out_0) /\ TolGe(in_0, c[1])

\* Mutant: an element goes before the elements with the same key.
RECURSIVE InsertByKeyUnstable(_, _)
InsertByKeyUnstable(sorted, e) ==
    IF sorted = <<>> THEN <<e>>
    ELSE IF Le(e.key, Head(sorted).key) THEN <<e>> \o sorted
    ELSE <<Head(sorted)>> \o InsertByKeyUnstable(Tail(sorted), e)

\* sorted(lst, key=lambda x: x[1]) is stable: an element goes after the
\* elements with the same key that precede it in lst.
RECURSIVE InsertByKey(_, _)
InsertByKey(sorted, e) ==
    IF sorted = <<>> THEN <<e>>
    ELSE IF Lt(e.key, Head(sorted).key) THEN <<e>> \o sorted
    ELSE <<Head(sorted)>> \o InsertByKey(Tail(sorted), e)

RECURSIVE SortedByKey(_, _)
SortedByKey(lst, acc) ==
    IF lst = <<>> THEN acc
    ELSE SortedByKey(Tail(lst), InsertByKey(acc, Head(lst)))

\* An element of lst: ((in, out), distSq)
Keyed(pt, I, O) == [pt |-> pt, key |-> distSq(I, O, pt[1], pt[2])]

\* Balances and results of __getEquilibrium a call may meet.
BalanceVals == {Two, Four, R(8)}
ReferenceVals == {Four, R(8)}
Candidates ==
    { <<Four, Four>>, <<Q(17, 4), Q(35, 8)>>, <<Q(9, 2), Q(19, 4)>>,
      <<R(8), Two>>, <<Two, R(8)>>, <<CPLX, Four>> }

\* A call of calculate_equilibriums: pc is the line it has reached.
EquilibriumCall(in_0, out_0, I, O, c1, c2) ==
    [pc |-> "current", in_0 |-> in_0, out_0 |-> out_0, I |-> I, O |-> O,
     c1 |-> c1, c2 |-> c2, lst |-> <<>>, ret |-> <<>>]

EquilibriumInit ==
    /\ cfg = [engine |-> "MPMM", reset_tx |-> FALSE, arb |-> FALSE,
              arb_actions |-> 0, crash_type |-> {}, k |-> KeepK]
    /\ equilibriums = MultiTokenPoolStatus
    /\ token_info = MultiTokenPoolStatus
    /\ prices = Unset
    /\ tx_inval = [t \in TxObjs |-> t.inval]
    /\ pc = "idle"
    /\ j = 0
    /\ n_tx = 0
    /\ txs = <<>>
    /\ stats = <<>>
    /\ batch_txs = <<>>
    /\ batch_stats = <<>>
    /\ initial_copy = <<>>
    /\ token_info_copy = <<>>
    /\ equilibrium_copy = <<>>
    /\ err = NONE
    /\ last_call = NoCall
    /\ ctor = Constructed(pairwise_pools, pairwise_infos)
    /\ external_price = <<>>
    /\ solver \in {EquilibriumCall(in_0, out_0, I, O, c1, c2) :
                      in_0 \in BalanceVals, out_0 \in BalanceVals,
                      I \in ReferenceVals, O \in ReferenceVals,
                      c1 \in Candidates, c2 \in Candidates}

\* Lines 222-223: the current balances open the list.
AppendCurrent ==
    /\ solver.pc = "current"
    /\ solver' = [solver EXCEPT
                     !.lst = <<Keyed(<<solver.in_0, solver.out_0>>,
                                     solver.I, solver.O)>>,
                     !.pc = "first"]
    /\ UNCHANGED EngineVars

\* Lines 225-229
AppendFirst ==
    /\ solver.pc = "first"
    /\ solver' = [solver EXCEPT
                     !.lst = IF Admitted(solver.c1, solver.in_0, solver.out_0)
                             THEN Append(@, Keyed(solver.c1, solver.I, solver.O))
                             ELSE @,
                     !.pc = "second"]
    /\ UNCHANGED EngineVars

\* Lines 231-235
AppendSecond ==
    /\ solver.pc = "second"
    /\ solver' = [solver EXCEPT
                     !.lst = IF Admitted(solver.c2, solver.in_0, solver.out_0)
                             THEN Append(@, Keyed(solver.c2, solver.I, solver.O))
                             ELSE @,
                     !.pc = "sort"]
    /\ UNCHANGED EngineVars

\* Lines 237-239
SortReturn ==
    /\ solver.pc = "sort"
    /\ solver' = [solver EXCEPT
                     !.lst = SortedByKey(@, <<>>),
                     !.ret = SortedByKey(solver.lst, <<>>)[1].pt,
                     !.pc = "returned"]
    /\ UNCHANGED EngineVars

EquilibriumNext ==
    \/ AppendCurrent
    \/ AppendFirst
    \/ AppendSecond
    \/ SortReturn

EquilibriumSpec == EquilibriumInit /\ [][EquilibriumNext]_vars

\* The member of the list `members` of points that is nearest to (I, O) in
\* squared relative distance, the earliest of them in the list on a tie.
Nearest(members, I, O) ==
    LET Key(i) == distSq(I, O, members[i][1], members[i][2])
    IN members[CHOOSE i \in 1..Len(members) :
                   /\ \A i2 \in 1..Len(members) : Le(Key(i), Key(i2))
                   /\ \A i2 \in 1..(i - 1) : Lt(Key(i), Key(i2))]

IsReal(c) == IsNum(c[1]) /\ IsNum(c[2])
\* x lies between a and b.
Between(x, a, b) == (Le(a, x) /\ Le(x, b)) \/ (Le(b, x) /\ Le(x, a))
\* Both coordinates of c lie between the current balances and the reference.
BetweenCurrentAndReference(c, sv) ==
    /\ IsReal(c)
    /\ Between(c[1], sv.in_0, sv.I)
    /\ Between(c[2], sv.out_0, sv.O)
\* c lies, within the tolerance, on one side of the current balances: its
\* input balance is not below and its output balance not above them, or the
\* reverse.
OneSided(c, sv) ==
    /\ IsReal(c)
    /\ \/ TolGe(c[1], sv.in_0) /\ TolGe(sv.out_0, c[2])
       \/ TolGe(c[2], sv.out_0) /\ TolGe(sv.in_0, c[1])
If(cond, c) == IF cond THEN <<c>> ELSE <<>>

\* C24 as claimed: calculate_equilibriums returns the member of {stored
\* reference, candidate 1, candidate 2} nearest to the stored reference in
\* squared relative distance, a candidate taking part only if it is real and
\* lies between the current balances and the reference; ties go to the
\* reference, then candidate 1, then candidate 2.
C24_NearestOfReference ==
    solver.pc = "returned" =>
        solver.ret =
            Nearest(<< <<solver.I, solver.O>> >>
                        \o If(BetweenCurrentAndReference(solver.c1, solver),
                              solver.c1)
                        \o If(BetweenCurrentAndReference(solver.c2, solver),
                              solver.c2),
                    solver.I, solver.O)

\* C24 as amended: calculate_equilibriums returns the member of {current
\* balances, candidate 1, candidate 2} nearest to the stored reference in
\* squared relative distance, a candidate taking part only if it is real and
\* lies, within the float tolerance, on one side of the current balances;
\* ties go to the current balances, then candidate 1, then candidate 2.
C24_NearestOfCurrent ==
    solver.pc = "returned" =>
        solver.ret =
            Nearest(<< <<solver.in_0, solver.out_0>> >>
                        \o If(OneSided(solver.c1, solver), solver.c1)
                        \o If(OneSided(solver.c2, solver), solver.c2),
                    solver.I, solver.O)
\* Both candidates took part, the second was returned, and it is neither the
\* current balances nor the reference.
C24_Witness ==
    /\ solver.pc = "returned"
    /\ Len(solver.lst) = 3
    /\ solver.ret = solver.c2
    /\ solver.ret # <<solver.in_0, solver.out_0>>
    /\ solver.ret # <<solver.I, solver.O>>
    /\ solver.ret # solver.c1

\* ------------------------------------------------------------------------
\* Outcome o carries the market rate of price vector p.
RateOf(o, p) == o.market_rate = MarketRate(p, o.in_type, o.out_type)

\* C25: every Outcome produced while simulate_traffic processes batch j, by
\* a direct swap or by arbitrage, carries market_rate =
\* external_price[j][out] / external_price[j][in]; during batch j the live
\* price vector is external_price[j], from before its first transaction on.
C25_MarketRatePerBatch ==
    /\ \A b \in 1..Len(txs) : \A i \in 1..Len(txs[b]) :
          RateOf(txs[b][i], external_price[b])
    /\ pc \in {"tx", "raised"} =>
          /\ prices = external_price[j + 1]
          /\ \A i \in 1..Len(batch_txs) :
                RateOf(batch_txs[i], external_price[j + 1])
\* The second batch runs under another price vector than the first and both
\* have produced Outcomes, the second also by arbitrage.
C25_Witness ==
    /\ pc = "tx" /\ j = 1
    /\ external_price[1] # external_price[2]
    /\ Len(txs[1]) > 0
    /\ Len(batch_txs) > 0
    /\ Arbitraged /\ Len(Trades) > 0

\* ------------------------------------------------------------------------
\* The balances and stored equilibrium of pool and all prices are strictly
\* positive and the pool's k lies in [0, 1].
PositivePool(ti, eq, pr, pool) ==
    /\ \A i \in 1..2 : Gt(ti[pool][i], Zero) /\ Gt(eq[pool][i], Zero)
    /\ \A t \in TokenSet : Gt(pr[t], Zero)
    /\ Le(Zero, ti[pool][3]) /\ Le(ti[pool][3], One)

\* C26: for every k in [0, 1], the endpoints included, PMM
\* calculate_equilibriums and PMM swap on a pool with strictly positive
\* balances, stored equilibrium and prices raise no ZeroDivisionError.
C26_NoDivisionByZero ==
    cfg.engine = "PMM" =>
        /\ pc \in {"batch", "tx", "done"} =>
              \A pool \in DOMAIN token_info :
                  PositivePool(token_info, equilibriums, prices, pool) =>
                      PMMCalculateEquilibriums(token_info, equilibriums, prices,
                                               pool[1], pool[2])[1] # ZDE
        /\ InBatch /\ last_call.kind = "swap"
               /\ PositivePool(last_call.pre_ti, last_call.pre_eq, prices,
                               <<last_call.tx.intype, last_call.tx.outtype>>)
           => last_call.swap.err # ZDE

\* ------------------------------------------------------------------------
\* The entries of the Pool State a swap on pool may change: the pair and its
\* mirror (pairwise), the two tokens (multi token).
Touched(pool) ==
    IF Pairwise THEN {pool, <<pool[2], pool[1]>>} ELSE {pool[1], pool[2]}
\* From Pool State before to Pool State after only entries of Touched(pool)
\* differ, and no k does.
Frame(before, after, pool) ==
    /\ DOMAIN after = DOMAIN before
    /\ \A key \in DOMAIN before :
          /\ key \notin Touched(pool) => after[key] = before[key]
          /\ Last(after[key]) = Last(before[key])
\* The Pool State the i-th trade of the last arbitrage() call left.
TiAfterTrade(i) ==
    IF i < Len(Trades) THEN Trades[i + 1].ti ELSE last_call.arb.ti

\* C27: an executed swap on (in,out) changes only the balances of that pair:
\* in pairwise topology the entries (in,out) and (out,in), every other pool
\* entry staying as it was, in multi-token topology the balances of in and
\* out; no swap and no arbitrage trade changes a k of the Pool State, which
\* holds the configured k values at every point of a run.
C27_SwapFrame ==
    /\ Swapped =>
          Frame(last_call.pre_ti, last_call.swap.ti,
                <<last_call.tx.intype, last_call.tx.outtype>>)
    /\ Arbitraged =>
          \A i \in 1..Len(Trades) :
              Frame(Trades[i].ti, TiAfterTrade(i), Trades[i].info.pool)
    /\ \A key \in DOMAIN token_info :
          Last(token_info[key]) = Last(SetK(ConfiguredEquilibriums, cfg.k)[key])
\* A pairwise arbitrage() call executed two trades after a swap moved a pool.
C27_Witness ==
    /\ Pairwise /\ Arbitraged /\ Len(Trades) = 2
    /\ last_call.pre_ti # ConfiguredEquilibriums
    /\ last_call.arb.ti # last_call.pre_ti

\* ------------------------------------------------------------------------
\* Traffic with an input amount far above the balances of the pool, on the
\* constant-product engines.
\* ------------------------------------------------------------------------
\* InputTx("A", "B", 2.0 ** 100)
HugeTx == [intype |-> "A", outtype |-> "B", inval |-> Huge, is_arb |-> FALSE]

HugeInit ==
    /\ cfg \in {c \in Configs : c.engine \in {"AMM", "MAMM"}}
    /\ equilibriums = IF IsMulti(cfg.engine) THEN MultiTokenPoolStatus
                      ELSE PairwiseTokenPoolStatus
    /\ token_info = SetK(equilibriums, cfg.k)
    /\ prices = Unset
    /\ tx_inval = [t \in TxObjs \cup {HugeTx} |-> t.inval]
    /\ pc = "idle"
    /\ j = 0
    /\ n_tx = 0
    /\ txs = <<>>
    /\ stats = <<>>
    /\ batch_txs = <<>>
    /\ batch_stats = <<>>
    /\ initial_copy = <<>>
    /\ token_info_copy = <<>>
    /\ equilibrium_copy = <<>>
    /\ err = NONE
    /\ last_call = NoCall
    /\ solver = NoSolve
    /\ ctor = Constructed(pairwise_pools, pairwise_infos)
    /\ external_price = <<>>

HugeNext ==
    \/ Next
    \/ TxStep(HugeTx)

HugeSpec == HugeInit /\ [][HugeNext]_vars

\* The balances of entry key of Pool State ti.
Balances(ti, key) == IF Pairwise THEN <<ti[key][1], ti[key][2]>> ELSE <<ti[key][1]>>

\* C28: on the constant-product engines every balance of the Pool State is
\* strictly positive after any sequence of swaps with non-negative input
\* amounts and arbitrage() calls, from strictly positive balances and prices:
\* no swap removes the whole output balance.
C28_BalancesStayPositive ==
    ConstantProduct =>
        \A key \in DOMAIN token_info :
            \A i \in 1..Len(Balances(token_info, key)) :
                Gt(Balances(token_info, key)[i], Zero)

\* ------------------------------------------------------------------------
\* The balances of pool in ti are its stored equilibrium in eq.
AtEquilibrium(ti, eq, pool) ==
    ti[pool][1] = eq[pool][1] /\ ti[pool][2] = eq[pool][2]
\* getRate(pool) reports that nothing is to be moved.
NothingToMove(rate_dict) ==
    /\ rate_dict.err = NONE
    /\ rate_dict.in_amt = Zero
    /\ rate_dict.out_amt = Zero

\* C30: for the pairwise PMM, whenever the balances of a pool equal its
\* stored equilibrium and k > 0, calculate_equilibriums returns the current
\* balances under every strictly positive price vector and getRate reports
\* in_amt = out_amt = 0; arbitrage() on a Pool State whose pools are all at
\* their stored equilibrium executes no trade and leaves Pool State and
\* Equilibrium Snapshot as they were, whatever the prices are.
C30_PMMFixedPoint ==
    cfg.engine = "PMM" =>
        /\ pc \in {"batch", "tx", "done", "raised"} =>
              \A pool \in DOMAIN token_info :
                  AtEquilibrium(token_info, equilibriums, pool)
                      /\ Gt(token_info[pool][3], Zero)
                  => /\ PMMCalculateEquilibriums(token_info, equilibriums,
                                                 prices, pool[1], pool[2])
                          = <<token_info[pool][1], token_info[pool][2]>>
                     /\ NothingToMove(getRate("PMM", token_info, equilibriums,
                                              prices, pool))
        /\ (/\ last_call.kind = "arb"
            /\ \A pool \in DOMAIN last_call.pre_ti :
                  AtEquilibrium(last_call.pre_ti, last_call.pre_eq, pool)
                      /\ Gt(last_call.pre_ti[pool][3], Zero))
           => /\ last_call.arb.err = NONE
              /\ last_call.arb.outs = <<>>
              /\ last_call.arb.snaps = <<>>
              /\ last_call.arb.ti = last_call.pre_ti
              /\ last_call.arb.eq = last_call.pre_eq
\* arbitrage() of a PMM has been called, with two rounds allowed, on pools at
\* their stored equilibrium while token A trades at four times the others.
C30_Witness ==
    /\ cfg.engine = "PMM" /\ cfg.arb_actions = 2
    /\ last_call.kind = "arb" /\ InBatch
    /\ prices["A"] = Four
    /\ \A pool \in DOMAIN last_call.pre_ti :
          AtEquilibrium(last_call.pre_ti, last_call.pre_eq, pool)


====
